---- MODULE Spec2Model ----
(***************************************************************************)
(* Model of the MCP host runner: the session and capability-cache manager  *)
(* (app/core/mcp_manager.py), its lifecycle hooks (app/api/routes.py).     *)
(*                                                                         *)
(* Scheduling is cooperative (asyncio): one action is the code a coroutine *)
(* runs between two suspension points (await on provider I/O).  Every      *)
(* provider call (open, initialize, list_tools, call_tool, close) is a     *)
(* suspension point whose outcome, success or failure, is chosen by the    *)
(* environment.                                                            *)
(***************************************************************************)
EXTENDS Integers, Sequences, FiniteSets, TLC

\* ------------------------------------------------------------------ bounds
MaxTime == 3        \* the clock runs 0..MaxTime
MaxPuts == 2        \* how many Session Records the host creates in a run
MaxTimeout == 2     \* mcp_session_timeout ranges over 1..MaxTimeout
MaxTTL == 2         \* mcp_cache_ttl ranges over 0..MaxTTL
MaxLimit == 2       \* calls_per_minute ranges over 0..MaxLimit
MaxRateTime == 125  \* the clock of the rate limiter runs 0..MaxRateTime

SessionIds == {"s1", "s2"}
Tasks == {"t1", "t2"}     \* request handlers that can be in flight together

\* ------------------------------------------------------------------- state
VARIABLES
    now,                \* datetime.now(), in whole time units
    settings,           \* config.settings, read at each use
    running_servers,    \* MCPManager.running_servers: session_id -> server_info
    session_metadata,   \* MCPManager.session_metadata: session_id -> metadata
    discovered_tools_cache,  \* MCPManager.discovered_tools_cache: key -> entry
    adapters,           \* provider sessions held by records: id -> state
    created,            \* how many Session Records have been created so far
    tasks,              \* the in-flight call of each request handler
    sweeper,            \* periodic_cleanup / cleanup_expired_sessions
    shutdown,           \* shutdown_event
    limiter,            \* the RateLimitMiddleware: calls_per_minute, clients, enabled
    admitted,           \* history: per client, the latest requests the limiter passed on
    stored_under,       \* history: per cache key, the settings its entry was stored under
    transients,         \* provider sessions opened by discover or one-shot execute, close not yet invoked
    ev                  \* what the step just taken returned or raised, if anything,
                        \* and how the close it had awaited ended

vars == <<now, settings, running_servers, session_metadata, discovered_tools_cache,
          adapters, created, tasks, sweeper, shutdown, limiter, admitted,
          stored_under, transients, ev>>

\* -------------------------------------------------------------- dictionaries
DictDel(d, k) == [x \in DOMAIN d \ {k} |-> d[x]]

DictSet(d, k, v) == [x \in DOMAIN d \cup {k} |-> IF x = k THEN v ELSE d[x]]

EmptyDict == [x \in {} |-> 0]

\* All orders in which a set can be enumerated.  Iterating a dict is modelled
\* as enumerating its keys in any order.
Orders(S) ==
    {q \in [1..Cardinality(S) -> S] : \A i, j \in 1..Cardinality(S) : q[i] = q[j] => i = j}

\* ------------------------------------------------------------ launch specs
\* MCPConfig: name, command, args (ordered), env (a map).
MCPConfig(name, command, args, env) ==
    [name |-> name, command |-> command, args |-> args, env |-> env]

\* An env dict of one entry.  A dict is the sequence of its entries in
\* insertion order, each key once.
Env(k, v) == <<<<k, v>>>>

Configs ==
    {MCPConfig("files", "npx", <<"-y", "server-files">>, Env("ROOT", "/srv")),
     MCPConfig("git", "npx", <<"-y", "server-git">>, Env("ROOT", "/srv"))}

NoConfig == MCPConfig("none", "none", <<>>, Env("none", "none"))

\* The capability lists a provider may report.
ToolLists == {<<>>, <<"read">>, <<"read", "write">>}

\* ----------------------------------------------------------------- results
NoResult == [status |-> "none", tools |-> <<>>, server_info |-> "none"]

\* No answer of a query.
NoAnswer == [status |-> "none"]

\* Python's None where a string (a sequence of characters) is expected.
None == <<"None">>

\* ------------------------------------------------------------------ events
NoEvent ==
    [kind |-> "none", op |-> "none", sid |-> "none", path |-> "none",
     status |-> "none", transient |-> "none", cfg |-> NoConfig, result |-> NoResult,
     close |-> "none", client_ip |-> None, retry_after |-> 0, answer |-> NoAnswer]

\* The event e of a step in which the awaited close of a record's adapter came
\* back: close tells whether that close succeeded.
AfterClose(e, close_ok) == [e EXCEPT !.close = IF close_ok THEN "ok" ELSE "failed"]

Returned(op, sid, path, status, transient) ==
    [NoEvent EXCEPT !.kind = "return", !.op = op, !.sid = sid, !.path = path,
                    !.status = status, !.transient = transient]

Raised(op, sid, path, transient) ==
    [NoEvent EXCEPT !.kind = "raise", !.op = op, !.sid = sid, !.path = path,
                    !.status = "KeyError", !.transient = transient]

\* discover_tools returned result for cfg: from the cache (path "hit") or after
\* a provider session (path "miss").
DiscoverReturned(cfg, path, result, transient) ==
    [NoEvent EXCEPT !.kind = "return", !.op = "discover", !.path = path,
                    !.status = result.status, !.transient = transient,
                    !.cfg = cfg, !.result = result]

\* ------------------------------------------------------------------- tasks
IdleTask ==
    [op |-> "none", pc |-> "idle", sid |-> "none", path |-> "none",
     adapter |-> 0, transient |-> "none", pending |-> "none",
     cfg |-> NoConfig, result |-> NoResult]

Accepting == shutdown.pc = "idle"

\* ---------------------------------------------------------------- adapters
\* The session objects held by server_info dicts.  An object lives as long as
\* something refers to it or its provider session has not been closed.
CloseBegun(ads, a) == [ads EXCEPT ![a] = IF @ = "open" THEN "closing" ELSE @]

CloseEnded(ads, a) == [ads EXCEPT ![a] = "closed"]

\* The adapters of ads that survive this step: those the next state still
\* refers to, and those whose provider session is not closed.
Collect(ads) ==
    LET referenced == {running_servers'[sid].session : sid \in DOMAIN running_servers'}
                      \cup {tasks'[t].adapter : t \in Tasks}
                      \cup {sweeper'.adapter, shutdown'.adapter}
    IN [a \in {b \in DOMAIN ads : ads[b] # "closed" \/ b \in referenced} |-> ads[a]]

\* ----------------------------------------------------------- the sweeper
\* scanned and alone are history: the metadata a pass scanned, and whether no
\* step of another operation has run since its scan.  They are forgotten by
\* the first step after the pass.
IdleSweeper ==
    [pc |-> "idle", current_time |-> 0, expired_sessions |-> <<>>, adapter |-> 0,
     scanned |-> EmptyDict, alone |-> TRUE]

\* A step of another operation.
Interfere ==
    sweeper' = IF sweeper.pc = "idle" THEN IdleSweeper ELSE [sweeper EXCEPT !.alone = FALSE]

\* A step that is no operation of the manager.
TimePasses ==
    sweeper' = IF sweeper.pc = "idle" THEN IdleSweeper ELSE sweeper

\* ------------------------------------------------------------ the registry
\* A server_info dict as the session-creation pathway stores it.
ServerInfo(a) == [session |-> a, server_name |-> "srv"]

Metadata(created_at, last_used) == [created_at |-> created_at, last_used |-> last_used]

\* The session-creation pathway of the surrounding system (spec 4.2 put, 4.5):
\* it registers a live, handshake-completed adapter under sid.
Put(sid) ==
    /\ Accepting
    /\ sid \notin DOMAIN running_servers
    /\ created < MaxPuts
    /\ created' = created + 1
    /\ adapters' = DictSet(adapters, created + 1, "open")
    /\ running_servers' = DictSet(running_servers, sid, ServerInfo(created + 1))
    /\ session_metadata' = DictSet(session_metadata, sid, Metadata(now, now))
    /\ ev' = NoEvent
    /\ Interfere
    /\ UNCHANGED <<now, settings, limiter, admitted, stored_under, transients, discovered_tools_cache, tasks, shutdown>>

Tick ==
    /\ now < MaxTime
    /\ now' = now + 1
    /\ ev' = NoEvent
    /\ TimePasses
    /\ UNCHANGED <<settings, limiter, admitted, stored_under, transients, created, discovered_tools_cache, running_servers,
                   session_metadata, adapters, tasks, shutdown>>

\* ------------------------------------------------------- _cleanup_session
\* _cleanup_session awaits the adapter's close only when the record exists and
\* holds a session.
CleanupSuspends(rs, sid) ==
    /\ sid \in DOMAIN rs
    /\ "session" \in DOMAIN rs[sid]

CleanupNoWait_Strict(rs, md, sid) ==
    [raised |-> sid \notin DOMAIN rs, rs |-> DictDel(rs, sid), md |-> DictDel(md, sid)]

\* _cleanup_session when it does not suspend: both deletions at once.
CleanupNoWait(rs, md, sid) ==
    [raised |-> FALSE, rs |-> DictDel(rs, sid), md |-> DictDel(md, sid)]

CleanupAfterClose_KeepOnFail(rs, md, sid, close_ok) ==
    IF sid \notin DOMAIN rs
    THEN [raised |-> TRUE, rs |-> rs, md |-> md]
    ELSE IF ~close_ok THEN [raised |-> FALSE, rs |-> rs, md |-> md]
    ELSE [raised |-> FALSE, rs |-> DictDel(rs, sid), md |-> DictDel(md, sid)]

CleanupAfterClose_KeepMeta(rs, md, sid, close_ok) ==
    IF sid \notin DOMAIN rs
    THEN [raised |-> TRUE, rs |-> rs, md |-> md]
    ELSE [raised |-> FALSE, rs |-> DictDel(rs, sid), md |-> md]

CleanupAfterClose_Propagate(rs, md, sid, close_ok) ==
    IF ~close_ok \/ sid \notin DOMAIN rs
    THEN [raised |-> TRUE, rs |-> rs, md |-> md]
    ELSE [raised |-> FALSE, rs |-> DictDel(rs, sid), md |-> DictDel(md, sid)]

CleanupAfterClose_KeepServer(rs, md, sid, close_ok) ==
    IF sid \notin DOMAIN rs
    THEN [raised |-> TRUE, rs |-> rs, md |-> md]
    ELSE [raised |-> FALSE, rs |-> rs, md |-> DictDel(md, sid)]

\* _cleanup_session after the awaited close: a close error is swallowed, then
\* del running_servers[sid] (KeyError when the record is gone), then the
\* metadata entry is deleted when present.
CleanupAfterClose(rs, md, sid, close_ok) ==
    IF sid \notin DOMAIN rs
    THEN [raised |-> TRUE, rs |-> rs, md |-> md]
    ELSE [raised |-> FALSE, rs |-> DictDel(rs, sid), md |-> DictDel(md, sid)]

\* ---------------------------------------------------------------- returns
Return(t, e) ==
    /\ tasks' = [tasks EXCEPT ![t] = IdleTask]
    /\ ev' = e

\* -------------------------------------------- execute_tool_with_config
Touch_Skip(md, sid, t) == md

\* _execute_with_existing_session: last_used <- datetime.now(), when the
\* identifier has metadata.
Touch(md, sid, t) ==
    IF sid \in DOMAIN md THEN [md EXCEPT ![sid].last_used = t] ELSE md

\* execute_tool_with_config up to its first await.  With a record for sid: the
\* reuse path, touch and call_tool on the record's session.  Without: the
\* new-session path, which starts opening a provider session.
ExecuteStart(t, sid) ==
    /\ Accepting
    /\ tasks[t].pc = "idle"
    /\ IF sid \in DOMAIN running_servers
       THEN /\ session_metadata' = Touch(session_metadata, sid, now)
            /\ tasks' = [tasks EXCEPT ![t] =
                   [IdleTask EXCEPT !.op = "execute", !.pc = "call_tool", !.sid = sid,
                                    !.path = "reuse",
                                    !.adapter = running_servers[sid].session]]
       ELSE /\ tasks' = [tasks EXCEPT ![t] =
                   [IdleTask EXCEPT !.op = "execute", !.pc = "open", !.sid = sid,
                                    !.path = "new"]]
            /\ UNCHANGED session_metadata
    /\ ev' = NoEvent
    /\ Interfere
    /\ UNCHANGED <<now, settings, limiter, admitted, stored_under, transients, created, discovered_tools_cache, running_servers,
                   adapters, shutdown>>

\* _execute_with_existing_session: call_tool comes back.  On success the
\* formatted result is returned.  On failure _cleanup_session(sid) runs: it
\* either suspends in the adapter's close or finishes at once.
ExecuteCallReturn(t) ==
    /\ tasks[t].op = "execute" /\ tasks[t].pc = "call_tool"
    /\ Interfere
    /\ UNCHANGED <<now, settings, limiter, admitted, stored_under, transients, created, discovered_tools_cache, shutdown>>
    /\ LET sid == tasks[t].sid IN
       \E ok \in BOOLEAN :
          IF ok
          THEN /\ Return(t, Returned("execute", sid, "reuse", "success", "none"))
               /\ UNCHANGED <<running_servers, session_metadata>>
               /\ adapters' = Collect(adapters)
          ELSE IF CleanupSuspends(running_servers, sid)
          THEN /\ tasks' = [tasks EXCEPT ![t].pc = "cleanup_close",
                                         ![t].adapter = running_servers[sid].session]
               /\ adapters' = CloseBegun(adapters, running_servers[sid].session)
               /\ ev' = NoEvent
               /\ UNCHANGED <<running_servers, session_metadata>>
          ELSE LET c == CleanupNoWait(running_servers, session_metadata, sid) IN
               /\ running_servers' = c.rs
               /\ session_metadata' = c.md
               /\ Return(t, Returned("execute", sid, "reuse", "error", "none"))
               /\ adapters' = Collect(adapters)

\* _execute_with_existing_session, inside its except handler: the close
\* awaited by _cleanup_session comes back.  A KeyError from the deletion is
\* raised inside the handler and leaves execute_tool_with_config.
ExecuteCleanupResume(t) ==
    /\ tasks[t].op = "execute" /\ tasks[t].pc = "cleanup_close"
    /\ Interfere
    /\ UNCHANGED <<now, settings, limiter, admitted, stored_under, transients, created, discovered_tools_cache, shutdown>>
    /\ LET sid == tasks[t].sid IN
       \E close_ok \in BOOLEAN :
          LET c == CleanupAfterClose(running_servers, session_metadata, sid, close_ok) IN
          /\ running_servers' = c.rs
          /\ session_metadata' = c.md
          /\ IF c.raised
             THEN Return(t, AfterClose(Raised("execute", sid, "reuse", "none"), close_ok))
             ELSE Return(t, AfterClose(Returned("execute", sid, "reuse", "error", "none"),
                                       close_ok))
          /\ adapters' = Collect(CloseEnded(adapters, tasks[t].adapter))

\* ------------------------------------------------- _create_mcp_session
ExitTransient_Leak(transient) == transient

\* Leaving the async with blocks of _create_mcp_session invokes the close of
\* the provider session, whatever happened inside.
ExitTransient(transient) == "closed"

\* _execute_with_new_session: stdio_client / ClientSession are entered.
ExecuteOpen(t) ==
    /\ tasks[t].op = "execute" /\ tasks[t].pc = "open"
    /\ \E ok \in BOOLEAN :
          IF ok
          THEN /\ tasks' = [tasks EXCEPT ![t].pc = "initialize", ![t].transient = "open"]
               /\ transients' = transients + 1
               /\ ev' = NoEvent
          ELSE /\ Return(t, Returned("execute", tasks[t].sid, "new", "error", "none"))
               /\ UNCHANGED transients
    /\ Interfere
    /\ UNCHANGED <<now, settings, limiter, admitted, stored_under, created, discovered_tools_cache, running_servers,
                   session_metadata, adapters, shutdown>>

\* _execute_with_new_session: session.initialize() comes back.
ExecuteInitialize(t) ==
    /\ tasks[t].op = "execute" /\ tasks[t].pc = "initialize"
    /\ \E ok \in BOOLEAN :
          tasks' = [tasks EXCEPT ![t].pc = IF ok THEN "call_tool_new" ELSE "close",
                                 ![t].pending = IF ok THEN "none" ELSE "error"]
    /\ ev' = NoEvent
    /\ Interfere
    /\ UNCHANGED <<now, settings, limiter, admitted, stored_under, transients, created, discovered_tools_cache, running_servers,
                   session_metadata, adapters, shutdown>>

AfterOneShot_Promote(rs, sid) == DictSet(rs, sid, ServerInfo(0))

\* What _execute_with_new_session does to running_servers once its call_tool
\* has come back: nothing, the session is not kept.
AfterOneShot(rs, sid) == rs

\* _execute_with_new_session: session.call_tool() comes back; the return (or
\* the exception) leaves the async with, which awaits the close.
ExecuteCallNew(t) ==
    /\ tasks[t].op = "execute" /\ tasks[t].pc = "call_tool_new"
    /\ \E ok \in BOOLEAN :
          tasks' = [tasks EXCEPT ![t].pc = "close",
                                 ![t].pending = IF ok THEN "success" ELSE "error"]
    /\ running_servers' = AfterOneShot(running_servers, tasks[t].sid)
    /\ ev' = NoEvent
    /\ Interfere
    /\ UNCHANGED <<now, settings, limiter, admitted, stored_under, transients, created,
                   discovered_tools_cache, session_metadata, adapters, shutdown>>

\* _execute_with_new_session: the close of the transient session comes back.
\* An exception from the close is caught by the except clause like any other.
ExecuteClose(t) ==
    /\ tasks[t].op = "execute" /\ tasks[t].pc = "close"
    /\ \E close_ok \in BOOLEAN :
          Return(t, Returned("execute", tasks[t].sid, "new",
                             IF close_ok THEN tasks[t].pending ELSE "error",
                             ExitTransient(tasks[t].transient)))
    /\ transients' = IF ExitTransient(tasks[t].transient) = "closed"
                      THEN transients - 1 ELSE transients
    /\ Interfere
    /\ UNCHANGED <<now, settings, limiter, admitted, stored_under, created, discovered_tools_cache, running_servers,
                   session_metadata, adapters, shutdown>>

\* ------------------------------------------------------------ stop_server
\* stop_server up to its first await: False for an unknown identifier, else
\* _cleanup_session(sid).
StopStart(t, sid) ==
    /\ Accepting
    /\ tasks[t].pc = "idle"
    /\ Interfere
    /\ UNCHANGED <<now, settings, limiter, admitted, stored_under, transients, created, discovered_tools_cache, shutdown>>
    /\ IF sid \notin DOMAIN running_servers
       THEN /\ Return(t, Returned("stop", sid, "none", "false", "none"))
            /\ UNCHANGED <<running_servers, session_metadata, adapters>>
       ELSE IF CleanupSuspends(running_servers, sid)
       THEN /\ tasks' = [tasks EXCEPT ![t] =
                   [IdleTask EXCEPT !.op = "stop", !.pc = "stop_close", !.sid = sid,
                                    !.adapter = running_servers[sid].session]]
            /\ adapters' = CloseBegun(adapters, running_servers[sid].session)
            /\ ev' = NoEvent
            /\ UNCHANGED <<running_servers, session_metadata>>
       ELSE LET c == CleanupNoWait(running_servers, session_metadata, sid) IN
            /\ running_servers' = c.rs
            /\ session_metadata' = c.md
            /\ Return(t, Returned("stop", sid, "none", "true", "none"))
            /\ adapters' = Collect(adapters)

\* stop_server: the close awaited by _cleanup_session comes back.  An
\* exception out of _cleanup_session is caught and answered with False.
StopResume(t) ==
    /\ tasks[t].op = "stop" /\ tasks[t].pc = "stop_close"
    /\ Interfere
    /\ UNCHANGED <<now, settings, limiter, admitted, stored_under, transients, created, discovered_tools_cache, shutdown>>
    /\ LET sid == tasks[t].sid IN
       \E close_ok \in BOOLEAN :
          LET c == CleanupAfterClose(running_servers, session_metadata, sid, close_ok) IN
          /\ running_servers' = c.rs
          /\ session_metadata' = c.md
          /\ Return(t, AfterClose(Returned("stop", sid, "none",
                                           IF c.raised THEN "false" ELSE "true", "none"),
                                  close_ok))
          /\ adapters' = Collect(CloseEnded(adapters, tasks[t].adapter))

\* ----------------------------------------------- cleanup_expired_sessions
AutoCleanup_Ignored == TRUE

\* if not settings.mcp_auto_cleanup: return
AutoCleanup == settings.mcp_auto_cleanup

IsExpired_Inclusive(current_time, last_used) ==
    current_time - last_used >= settings.mcp_session_timeout

\* current_time - last_used > timedelta(seconds=settings.mcp_session_timeout)
IsExpired(current_time, last_used) ==
    current_time - last_used > settings.mcp_session_timeout

\* The for loop over expired_sessions, run until a _cleanup_session suspends in
\* a close (the head of q is then the session being closed) or the list ends.
RECURSIVE SweepAdvance(_, _, _)
SweepAdvance(q, rs, md) ==
    IF q = <<>> \/ CleanupSuspends(rs, Head(q))
    THEN [q |-> q, rs |-> rs, md |-> md]
    ELSE LET c == CleanupNoWait(rs, md, Head(q)) IN SweepAdvance(Tail(q), c.rs, c.md)

\* A pass that holds the registry a and the adapters ads: it suspends in the
\* close of the head of a.q, or comes back to periodic_cleanup.  e is the event
\* of the step so far.
SweepContinue(a, ads, current_time, scanned, alone, e) ==
    /\ running_servers' = a.rs
    /\ session_metadata' = a.md
    /\ IF a.q = <<>>
       THEN /\ sweeper' = [IdleSweeper EXCEPT !.current_time = current_time,
                                              !.scanned = scanned, !.alone = alone]
            /\ adapters' = Collect(ads)
            /\ ev' = [Returned("sweep", "none", "none", "done", "none")
                        EXCEPT !.close = e.close]
       ELSE /\ sweeper' = [pc |-> "closing", current_time |-> current_time,
                           expired_sessions |-> a.q,
                           adapter |-> a.rs[Head(a.q)].session,
                           scanned |-> scanned, alone |-> alone]
            /\ adapters' = Collect(CloseBegun(ads, a.rs[Head(a.q)].session))
            /\ ev' = e

\* periodic_cleanup wakes up and calls cleanup_expired_sessions, which returns
\* at once when auto-cleanup is off and otherwise scans session_metadata and
\* starts cleaning the expired identifiers up.
SweepScan ==
    /\ sweeper.pc = "idle"
    /\ shutdown.pc # "done"
    /\ UNCHANGED <<now, settings, limiter, admitted, stored_under, transients, created, discovered_tools_cache, tasks, shutdown>>
    /\ IF ~AutoCleanup
       THEN /\ ev' = Returned("sweep", "none", "none", "disabled", "none")
            /\ UNCHANGED <<running_servers, session_metadata, adapters, sweeper>>
       ELSE LET expired == {sid \in DOMAIN session_metadata :
                               IsExpired(now, session_metadata[sid].last_used)} IN
            \E q \in Orders(expired) :
               SweepContinue(SweepAdvance(q, running_servers, session_metadata),
                             adapters, now, session_metadata, TRUE, NoEvent)

\* cleanup_expired_sessions: the close awaited by _cleanup_session comes back.
\* A KeyError from the deletion leaves cleanup_expired_sessions and is caught
\* and logged by periodic_cleanup; the rest of the list is not visited.
SweepResume ==
    /\ sweeper.pc = "closing"
    /\ UNCHANGED <<now, settings, limiter, admitted, stored_under, transients, created, discovered_tools_cache, tasks, shutdown>>
    /\ \E close_ok \in BOOLEAN :
          LET sid == Head(sweeper.expired_sessions)
              c == CleanupAfterClose(running_servers, session_metadata, sid, close_ok)
          IN
          IF c.raised
          THEN /\ sweeper' = [IdleSweeper EXCEPT !.current_time = sweeper.current_time,
                                                 !.scanned = sweeper.scanned,
                                                 !.alone = sweeper.alone]
               /\ ev' = AfterClose(Raised("sweep", sid, "none", "none"), close_ok)
               /\ UNCHANGED <<running_servers, session_metadata>>
               /\ adapters' = Collect(CloseEnded(adapters, sweeper.adapter))
          ELSE SweepContinue(SweepAdvance(Tail(sweeper.expired_sessions), c.rs, c.md),
                             CloseEnded(adapters, sweeper.adapter),
                             sweeper.current_time, sweeper.scanned, sweeper.alone,
                             AfterClose(NoEvent, close_ok))

\* ---------------------------------------------------------- discover_tools
\* datetime.isoformat() and datetime.fromisoformat(): the cache keeps its
\* timestamps as text.
isoformat(t) == <<"iso", t>>

fromisoformat(text) == text[2]

\* The keys json.dumps meets, in the order of their code points.
KeyOrder == <<"PATH", "ROOT", "args", "command", "env", "name", "none">>

RankOf ==
    [k \in {KeyOrder[i] : i \in 1..Len(KeyOrder)} |->
        CHOOSE i \in 1..Len(KeyOrder) : KeyOrder[i] = k]

Rank(k) == RankOf[k]

\* mcp_config.dict(): the fields of the model in the order of their
\* declaration, whatever order they were supplied in.
dict(cfg) ==
    <<<<"name", cfg.name>>, <<"command", cfg.command>>, <<"args", cfg.args>>,
      <<"env", cfg.env>>>>

sort_keys_Off(items) == items

\* sort_keys=True: the entries of a dict in the order of their keys.
RECURSIVE insort(_, _)
insort(sorted, item) ==
    IF sorted = <<>> THEN <<item>>
    ELSE IF Rank(item[1]) <= Rank(Head(sorted)[1]) THEN <<item>> \o sorted
    ELSE <<Head(sorted)>> \o insort(Tail(sorted), item)

RECURSIVE sort_keys(_)
sort_keys(items) ==
    IF items = <<>> THEN <<>> ELSE insort(sort_keys(Tail(items)), Head(items))

\* json.dumps(config_dict, sort_keys=True): the text lists the entries of the
\* dict and of the env dict inside it by key; lists keep their order.
dumps(config_dict) ==
    sort_keys([i \in 1..Len(config_dict) |->
                  IF config_dict[i][1] = "env"
                  THEN <<"env", sort_keys(config_dict[i][2])>>
                  ELSE config_dict[i]])

\* _generate_cache_key: json.dumps(mcp_config.dict(), sort_keys=True).
_generate_cache_key(cfg) == dumps(dict(cfg))

_should_use_cache_Inclusive(cache_key) ==
    /\ settings.mcp_cache_enabled
    /\ cache_key \in DOMAIN discovered_tools_cache
    /\ now <= fromisoformat(discovered_tools_cache[cache_key].cached_at)
                + settings.mcp_cache_ttl

_should_use_cache_Snapshot(cache_key) ==
    /\ cache_key \in DOMAIN discovered_tools_cache
    /\ stored_under[cache_key].mcp_cache_enabled
    /\ now < fromisoformat(discovered_tools_cache[cache_key].cached_at)
                + stored_under[cache_key].mcp_cache_ttl

\* _should_use_cache: caching on, an entry stored, and
\* datetime.now() < cached_at + timedelta(seconds=mcp_cache_ttl).
_should_use_cache(cache_key) ==
    /\ settings.mcp_cache_enabled
    /\ cache_key \in DOMAIN discovered_tools_cache
    /\ now < fromisoformat(discovered_tools_cache[cache_key].cached_at)
                + settings.mcp_cache_ttl

ToolInfo(name) == [name |-> name, description |-> "", inputSchema |-> "{}"]

SuccessResult(tools) ==
    [status |-> "success",
     tools |-> [i \in 1..Len(tools) |-> ToolInfo(tools[i])],
     server_info |-> "srv"]

\* The result of the except clause of discover_tools.
ErrorResult == [status |-> "error", tools |-> <<>>, server_info |-> "none"]

ShouldStore_Always(tools) == tools # <<>>

\* if tools and settings.mcp_cache_enabled
ShouldStore(tools) == tools # <<>> /\ settings.mcp_cache_enabled

CacheStoreOnError(cache, cache_key, result) ==
    DictSet(cache, cache_key, [data |-> result, cached_at |-> isoformat(now)])

\* What the except clause of discover_tools does to the cache: nothing.
CacheOnError(cache, cache_key, result) == cache

CacheOnHit_Refresh(cache, cache_key, t) ==
    [cache EXCEPT ![cache_key].cached_at = isoformat(t)]

\* What a cache hit of discover_tools does to the cache: nothing, the stored
\* data is returned as it is.
CacheOnHit(cache, cache_key, t) == cache

\* discover_tools up to its first await: the cached data on a hit, else the
\* provider session is being opened.  path records why the cache was not used:
\* "expired" when an entry is stored under the key, "miss" when none is.
DiscoverStart(t, cfg) ==
    /\ Accepting
    /\ tasks[t].pc = "idle"
    /\ LET cache_key == _generate_cache_key(cfg) IN
       IF _should_use_cache(cache_key)
       THEN /\ Return(t, DiscoverReturned(cfg, "hit",
                                          discovered_tools_cache[cache_key].data, "none"))
            /\ discovered_tools_cache' =
                  CacheOnHit(discovered_tools_cache, cache_key, now)
       ELSE /\ tasks' = [tasks EXCEPT ![t] =
                   [IdleTask EXCEPT !.op = "discover", !.pc = "open", !.cfg = cfg,
                                    !.path = IF cache_key \in DOMAIN discovered_tools_cache
                                             THEN "expired" ELSE "miss"]]
            /\ ev' = NoEvent
            /\ UNCHANGED discovered_tools_cache
    /\ Interfere
    /\ UNCHANGED <<now, settings, limiter, admitted, stored_under, transients, created, running_servers,
                   session_metadata, adapters, shutdown>>

\* discover_tools: stdio_client / ClientSession are entered.
DiscoverOpen(t) ==
    /\ tasks[t].op = "discover" /\ tasks[t].pc = "open"
    /\ \E ok \in BOOLEAN :
          IF ok
          THEN /\ tasks' = [tasks EXCEPT ![t].pc = "initialize", ![t].transient = "open"]
               /\ transients' = transients + 1
               /\ ev' = NoEvent
               /\ UNCHANGED discovered_tools_cache
          ELSE /\ Return(t, DiscoverReturned(tasks[t].cfg, tasks[t].path, ErrorResult, "none"))
               /\ discovered_tools_cache' =
                     CacheOnError(discovered_tools_cache,
                                  _generate_cache_key(tasks[t].cfg), ErrorResult)
               /\ UNCHANGED transients
    /\ Interfere
    /\ UNCHANGED <<now, settings, limiter, admitted, stored_under, created, running_servers, session_metadata, adapters,
                   shutdown>>

\* discover_tools: session.initialize() comes back.  A failure leaves the
\* async with towards the except clause.
DiscoverInitialize(t) ==
    /\ tasks[t].op = "discover" /\ tasks[t].pc = "initialize"
    /\ \E ok \in BOOLEAN :
          IF ok
          THEN /\ tasks' = [tasks EXCEPT ![t].pc = "list_tools"]
               /\ UNCHANGED discovered_tools_cache
          ELSE /\ tasks' = [tasks EXCEPT ![t].pc = "close", ![t].result = ErrorResult]
               /\ discovered_tools_cache' =
                     CacheOnError(discovered_tools_cache,
                                  _generate_cache_key(tasks[t].cfg), ErrorResult)
    /\ ev' = NoEvent
    /\ Interfere
    /\ UNCHANGED <<now, settings, limiter, admitted, stored_under, transients, created, running_servers, session_metadata, adapters,
                   shutdown>>

\* discover_tools: session.list_tools() comes back.  On success the result is
\* built and, when it has tools and caching is on, stored under the key with
\* cached_at = now; then the return leaves the async with.
DiscoverListTools(t) ==
    /\ tasks[t].op = "discover" /\ tasks[t].pc = "list_tools"
    /\ LET cache_key == _generate_cache_key(tasks[t].cfg) IN
       \/ /\ tasks' = [tasks EXCEPT ![t].pc = "close", ![t].result = ErrorResult]
          /\ discovered_tools_cache' =
                CacheOnError(discovered_tools_cache, cache_key, ErrorResult)
          /\ UNCHANGED stored_under
       \/ \E tools \in ToolLists :
             LET result == SuccessResult(tools) IN
             /\ tasks' = [tasks EXCEPT ![t].pc = "close", ![t].result = result]
             /\ discovered_tools_cache' =
                   IF ShouldStore(result.tools)
                   THEN DictSet(discovered_tools_cache, cache_key,
                                [data |-> result, cached_at |-> isoformat(now)])
                   ELSE discovered_tools_cache
             /\ stored_under' =
                   IF ShouldStore(result.tools)
                   THEN DictSet(stored_under, cache_key, settings)
                   ELSE stored_under
    /\ ev' = NoEvent
    /\ Interfere
    /\ UNCHANGED <<now, settings, limiter, admitted, transients, created, running_servers, session_metadata, adapters,
                   shutdown>>

\* discover_tools: the close of the transient session comes back.  An
\* exception from the close reaches the except clause like any other.
DiscoverClose(t) ==
    /\ tasks[t].op = "discover" /\ tasks[t].pc = "close"
    /\ \E close_ok \in BOOLEAN :
          Return(t, DiscoverReturned(tasks[t].cfg, tasks[t].path,
                                     IF close_ok THEN tasks[t].result ELSE ErrorResult,
                                     ExitTransient(tasks[t].transient)))
    /\ transients' = IF ExitTransient(tasks[t].transient) = "closed"
                      THEN transients - 1 ELSE transients
    /\ Interfere
    /\ UNCHANGED <<now, settings, limiter, admitted, stored_under, created, discovered_tools_cache, running_servers,
                   session_metadata, adapters, shutdown>>

\* ------------------------------------------------------ RateLimitMiddleware
\* Strings of the request are sequences of characters; None is an absent
\* header or peer.
Window == 60                    \* current_time - timestamp < 60; retry_after 60
DefaultCallsPerMinute == 60     \* calls_per_minute: int = 60

\* str.strip(): leading and trailing blanks removed.
RECURSIVE lstrip(_)
lstrip(str) == IF str # <<>> /\ Head(str) = " " THEN lstrip(Tail(str)) ELSE str

RECURSIVE rstrip(_)
rstrip(str) ==
    IF str # <<>> /\ str[Len(str)] = " " THEN rstrip(SubSeq(str, 1, Len(str) - 1)) ELSE str

strip(str) == rstrip(lstrip(str))

\* str.split(",")[0]: the characters before the first comma.
RECURSIVE split_first(_)
split_first(str) ==
    IF str = <<>> \/ Head(str) = "," THEN <<>>
    ELSE <<Head(str)>> \o split_first(Tail(str))

\* if value: a header that is present and not the empty string.
Truthy(value) == value # None /\ value # <<>>

\* A request: its X-Forwarded-For and X-Real-IP headers and request.client.host.
Request(forwarded_for, real_ip, host) ==
    [forwarded_for |-> forwarded_for, real_ip |-> real_ip, host |-> host]

Requests ==
    {Request(f, r, h) :
        f \in {None, <<>>, <<"a">>, <<" ", "a", " ", ",", "b">>},
        r \in {None, <<"b">>},
        h \in {None, <<"a">>}}

_get_client_ip_RealIpFirst(request) ==
    IF Truthy(request.real_ip) THEN request.real_ip
    ELSE IF Truthy(request.forwarded_for) THEN strip(split_first(request.forwarded_for))
    ELSE IF request.host # None THEN request.host
    ELSE <<"unknown">>

\* _get_client_ip: the first entry of X-Forwarded-For, else X-Real-IP, else the
\* peer's host, else "unknown".
_get_client_ip(request) ==
    IF Truthy(request.forwarded_for) THEN strip(split_first(request.forwarded_for))
    ELSE IF Truthy(request.real_ip) THEN request.real_ip
    ELSE IF request.host # None THEN request.host
    ELSE <<"unknown">>

\* RateLimitMiddleware.__init__
RateLimitMiddleware(calls_per_minute, enabled) ==
    [calls_per_minute |-> calls_per_minute, clients |-> EmptyDict, enabled |-> enabled]

\* The timestamps of window that dispatch keeps at current_time.
RECURSIVE Prune_Inclusive(_, _)
Prune_Inclusive(window, current_time) ==
    IF window = <<>> THEN <<>>
    ELSE IF current_time - Head(window) <= Window
    THEN <<Head(window)>> \o Prune_Inclusive(Tail(window), current_time)
    ELSE Prune_Inclusive(Tail(window), current_time)

RECURSIVE Prune_Short(_, _)
Prune_Short(window, current_time) ==
    IF window = <<>> THEN <<>>
    ELSE IF current_time - Head(window) < Window \div 2
    THEN <<Head(window)>> \o Prune_Short(Tail(window), current_time)
    ELSE Prune_Short(Tail(window), current_time)

\* [timestamp for timestamp in clients[client_ip] if current_time - timestamp < 60]
RECURSIVE Prune(_, _)
Prune(window, current_time) ==
    IF window = <<>> THEN <<>>
    ELSE IF current_time - Head(window) < Window
    THEN <<Head(window)>> \o Prune(Tail(window), current_time)
    ELSE Prune(Tail(window), current_time)

\* len(self.clients[client_ip]) >= self.calls_per_minute
Full_Strict(kept, calls_per_minute) == Len(kept) > calls_per_minute

Full(kept, calls_per_minute) == Len(kept) >= calls_per_minute

Record_All(clients, client_ip, window) ==
    [c \in DOMAIN clients \cup {client_ip} |-> window]

\* self.clients[client_ip] = [...] and self.clients[client_ip].append(...):
\* the list of client_ip is replaced, the other clients' lists are not touched.
Record(clients, client_ip, window) == DictSet(clients, client_ip, window)

\* What dispatch answered: status "call_next" when the request was passed on,
\* "429" with retry_after when it was rejected.
Dispatched(client_ip, status, retry_after) ==
    [NoEvent EXCEPT !.kind = "return", !.op = "dispatch", !.client_ip = client_ip,
                    !.status = status, !.retry_after = retry_after]

\* The last n entries of a sequence.
LastN(seq, n) == IF Len(seq) <= n THEN seq ELSE SubSeq(seq, Len(seq) - n + 1, Len(seq))

\* History: client_ip was passed on at current_time.  The latest
\* calls_per_minute + 1 times are kept.
Admit(client_ip, current_time) ==
    LET log == IF client_ip \in DOMAIN admitted THEN admitted[client_ip] ELSE <<>>
    IN DictSet(admitted, client_ip,
               LastN(Append(log, current_time), limiter.calls_per_minute + 1))

Disabled_Never == FALSE

\* if not self.enabled: return await call_next(request)
Disabled == ~limiter.enabled

\* RateLimitMiddleware.dispatch up to call_next: prune the client's window,
\* reject when it is full, else record the request and pass it on.
Dispatch(request) ==
    /\ IF Disabled
       THEN /\ ev' = Dispatched(None, "call_next", 0)
            /\ admitted' = Admit(_get_client_ip(request), now)
            /\ UNCHANGED limiter
       ELSE LET client_ip == _get_client_ip(request)
                current_time == now
                kept == IF client_ip \in DOMAIN limiter.clients
                        THEN Prune(limiter.clients[client_ip], current_time)
                        ELSE <<>>
            IN IF Full(kept, limiter.calls_per_minute)
               THEN /\ limiter' = [limiter EXCEPT
                                      !.clients = Record(@, client_ip, kept)]
                    /\ ev' = Dispatched(client_ip, "429", Window)
                    /\ UNCHANGED admitted
               ELSE /\ limiter' = [limiter EXCEPT
                                      !.clients = Record(@, client_ip,
                                                         Append(kept, current_time))]
                    /\ ev' = Dispatched(client_ip, "call_next", 0)
                    /\ admitted' = Admit(client_ip, current_time)
    /\ UNCHANGED <<now, settings, stored_under, transients, created, discovered_tools_cache,
                   running_servers, session_metadata, adapters, tasks, sweeper, shutdown>>

\* Time passes between requests.
Elapse(d) ==
    /\ now + d <= MaxRateTime
    /\ now' = now + d
    /\ ev' = NoEvent
    /\ UNCHANGED <<settings, limiter, admitted, stored_under, transients, created, discovered_tools_cache, running_servers,
                   session_metadata, adapters, tasks, sweeper, shutdown>>

\* ---------------------------------------------------------- shutdown_event
\* active_sessions is list(running_servers.keys()); i is the position of the
\* for loop in it.
IdleShutdown == [pc |-> "idle", active_sessions |-> <<>>, i |-> 0, adapter |-> 0]

\* The for loop over active_sessions from position i: stop_server for each
\* identifier, run until one suspends in a close or the list ends.
RECURSIVE ShutdownAdvance(_, _, _, _)
ShutdownAdvance(q, i, rs, md) ==
    IF i > Len(q) THEN [i |-> i, rs |-> rs, md |-> md]
    ELSE IF q[i] \notin DOMAIN rs THEN ShutdownAdvance(q, i + 1, rs, md)
    ELSE IF CleanupSuspends(rs, q[i]) THEN [i |-> i, rs |-> rs, md |-> md]
    ELSE LET c == CleanupNoWait(rs, md, q[i]) IN ShutdownAdvance(q, i + 1, c.rs, c.md)

ShutdownContinue(q, a, ads, e) ==
    /\ running_servers' = a.rs
    /\ session_metadata' = a.md
    /\ IF a.i > Len(q)
       THEN /\ shutdown' = [pc |-> "done", active_sessions |-> q, i |-> a.i, adapter |-> 0]
            /\ adapters' = Collect(ads)
            /\ ev' = [Returned("shutdown", "none", "none", "done", "none")
                        EXCEPT !.close = e.close]
       ELSE /\ shutdown' = [pc |-> "closing", active_sessions |-> q, i |-> a.i,
                            adapter |-> a.rs[q[a.i]].session]
            /\ adapters' = Collect(CloseBegun(ads, a.rs[q[a.i]].session))
            /\ ev' = e

\* shutdown_event: the keys of running_servers are copied and stopped one by
\* one.  The ASGI server runs the shutdown event once it has stopped accepting
\* requests and the request handlers in flight have finished; the
\* periodic_cleanup task is still scheduled.
ShutdownStart ==
    /\ shutdown.pc = "idle"
    /\ \A t \in Tasks : tasks[t].pc = "idle"
    /\ Interfere
    /\ UNCHANGED <<now, settings, limiter, admitted, stored_under, transients, created, discovered_tools_cache, tasks>>
    /\ \E q \in Orders(DOMAIN running_servers) :
          ShutdownContinue(q, ShutdownAdvance(q, 1, running_servers, session_metadata),
                           adapters, NoEvent)

\* shutdown_event: the close awaited inside stop_server comes back; an
\* exception out of _cleanup_session is caught by stop_server.
ShutdownResume ==
    /\ shutdown.pc = "closing"
    /\ Interfere
    /\ UNCHANGED <<now, settings, limiter, admitted, stored_under, transients, created, discovered_tools_cache, tasks>>
    /\ \E close_ok \in BOOLEAN :
          LET q == shutdown.active_sessions
              c == CleanupAfterClose(running_servers, session_metadata, q[shutdown.i],
                                     close_ok)
          IN ShutdownContinue(q, ShutdownAdvance(q, shutdown.i + 1, c.rs, c.md),
                              CloseEnded(adapters, shutdown.adapter),
                              AfterClose(NoEvent, close_ok))

\* ------------------------------------------------------ get_active_sessions
\* metadata.get(session_id, {}).get(field): None, written -1, without metadata.
MetaGet(md, sid, field) == IF sid \in DOMAIN md THEN md[sid][field] ELSE -1

get_active_sessions_OpenOnly ==
    LET sessions == {[session_id |-> sid,
                      name |-> running_servers[sid].server_name,
                      created_at |-> MetaGet(session_metadata, sid, "created_at"),
                      last_used |-> MetaGet(session_metadata, sid, "last_used")] :
                     sid \in {x \in DOMAIN running_servers :
                                 adapters[running_servers[x].session] = "open"}}
    IN [sessions |-> sessions, total_count |-> Cardinality(sessions)]

get_active_sessions ==
    LET sessions == {[session_id |-> sid,
                      name |-> running_servers[sid].server_name,
                      created_at |-> MetaGet(session_metadata, sid, "created_at"),
                      last_used |-> MetaGet(session_metadata, sid, "last_used")] :
                     sid \in DOMAIN running_servers}
    IN [sessions |-> sessions, total_count |-> Cardinality(sessions)]

\* The handler of /mcp/active-sessions: one call of get_active_sessions, which
\* has no await.
ActiveSessions ==
    /\ ev' = [NoEvent EXCEPT !.kind = "return", !.op = "list",
                             !.answer = get_active_sessions]
    /\ UNCHANGED <<now, settings, limiter, admitted, stored_under, transients, created, discovered_tools_cache,
                   running_servers, session_metadata, adapters, tasks, sweeper,
                   shutdown>>

\* ------------------------------------------------------- get_session_status
get_session_status_OpenOnly(session_id) ==
    IF session_id \notin DOMAIN running_servers
       \/ adapters[running_servers[session_id].session] # "open"
    THEN [status |-> "not_found"]
    ELSE [status |-> "running",
          name |-> running_servers[session_id].server_name,
          created_at |-> MetaGet(session_metadata, session_id, "created_at"),
          last_used |-> MetaGet(session_metadata, session_id, "last_used")]

get_session_status(session_id) ==
    IF session_id \notin DOMAIN running_servers
    THEN [status |-> "not_found"]
    ELSE [status |-> "running",
          name |-> running_servers[session_id].server_name,
          created_at |-> MetaGet(session_metadata, session_id, "created_at"),
          last_used |-> MetaGet(session_metadata, session_id, "last_used")]

\* The handler of /mcp/status/{session_id}: one call of get_session_status,
\* which has no await.
Status(sid) ==
    /\ ev' = [NoEvent EXCEPT !.kind = "return", !.op = "status", !.sid = sid,
                             !.answer = get_session_status(sid)]
    /\ UNCHANGED <<now, settings, limiter, admitted, stored_under, transients, created, discovered_tools_cache,
                   running_servers, session_metadata, adapters, tasks, sweeper,
                   shutdown>>

\* ------------------------------------------------------------------ get_stats
get_stats ==
    [status |-> "stats",
     active_sessions |-> Cardinality(DOMAIN running_servers),
     cached_tools |-> Cardinality(DOMAIN discovered_tools_cache),
     cache_enabled |-> settings.mcp_cache_enabled,
     auto_cleanup_enabled |-> settings.mcp_auto_cleanup]

\* The handler of /stats: one call of get_stats, which has no await.
Stats ==
    /\ ev' = [NoEvent EXCEPT !.kind = "return", !.op = "stats", !.answer = get_stats]
    /\ UNCHANGED <<now, settings, limiter, admitted, stored_under, transients, created,
                   discovered_tools_cache, running_servers, session_metadata, adapters,
                   tasks, sweeper, shutdown>>

\* ------------------------------------------------------------ specification
TimeoutValues == 1..MaxTimeout

\* A new MCPManager, under any configuration of the session side.
Init ==
    /\ now = 0
    /\ settings \in [mcp_session_timeout : TimeoutValues, mcp_auto_cleanup : BOOLEAN,
                     mcp_cache_enabled : {TRUE}, mcp_cache_ttl : {1}]
    /\ running_servers = EmptyDict
    /\ discovered_tools_cache = EmptyDict
    /\ session_metadata = EmptyDict
    /\ adapters = EmptyDict
    /\ created = 0
    /\ tasks = [t \in Tasks |-> IdleTask]
    /\ sweeper = IdleSweeper
    /\ shutdown = IdleShutdown
    /\ limiter = RateLimitMiddleware(DefaultCallsPerMinute, TRUE)
    /\ admitted = EmptyDict
    /\ stored_under = EmptyDict
    /\ transients = 0
    /\ ev = NoEvent

\* The steps of the handlers T on the identifiers S, of the sweeper, of the
\* shutdown hook and of the clock.
NextFor(T, S) ==
    \/ Tick
    \/ \E sid \in S : Put(sid)
    \/ \E t \in T, sid \in S : ExecuteStart(t, sid)
    \/ \E t \in T : ExecuteCallReturn(t)
    \/ \E t \in T : ExecuteCleanupResume(t)
    \/ \E t \in T : ExecuteOpen(t)
    \/ \E t \in T : ExecuteInitialize(t)
    \/ \E t \in T : ExecuteCallNew(t)
    \/ \E t \in T : ExecuteClose(t)
    \/ \E t \in T, sid \in S : StopStart(t, sid)
    \/ \E t \in T : StopResume(t)
    \/ SweepScan
    \/ SweepResume
    \/ ShutdownStart
    \/ ShutdownResume

\* Concurrent handlers on one identifier.
Next == NextFor(Tasks, {"s1"})

Spec == Init /\ [][Next]_vars

\* One handler and several identifiers.
NextRegistry == NextFor({"t1"}, SessionIds)

SpecRegistry == Init /\ [][NextRegistry]_vars

\* One handler and several identifiers, with the queries of the registry.
NextQuery ==
    \/ NextFor({"t1"}, SessionIds)
    \/ ActiveSessions
    \/ \E sid \in SessionIds : Status(sid)

SpecQuery == Init /\ [][NextQuery]_vars

TTLValues == 0..MaxTTL

\* The operations of the manager as the code of the repository has them, one
\* handler at a time: discover, execute, stop, the queries, the sweeper, the
\* shutdown hook, the clock.  Nothing here creates a Session Record; the steps
\* that resume a call or a close on a record need one to have been found.
NextManager ==
    \/ Tick
    \/ \E sid \in SessionIds : ExecuteStart("t1", sid)
    \/ ExecuteOpen("t1")
    \/ ExecuteInitialize("t1")
    \/ ExecuteCallNew("t1")
    \/ ExecuteClose("t1")
    \/ \E sid \in SessionIds : StopStart("t1", sid)
    \/ \E cfg \in Configs : DiscoverStart("t1", cfg)
    \/ DiscoverOpen("t1")
    \/ DiscoverInitialize("t1")
    \/ DiscoverListTools("t1")
    \/ DiscoverClose("t1")
    \/ ActiveSessions
    \/ \E sid \in SessionIds : Status(sid)
    \/ Stats
    \/ SweepScan
    \/ ShutdownStart

SpecManager == Init /\ [][NextManager]_vars

\* A new MCPManager, under any configuration of the cache.
InitCache ==
    /\ now = 0
    /\ settings \in [mcp_session_timeout : {1}, mcp_auto_cleanup : {TRUE},
                     mcp_cache_enabled : BOOLEAN, mcp_cache_ttl : TTLValues]
    /\ running_servers = EmptyDict
    /\ discovered_tools_cache = EmptyDict
    /\ session_metadata = EmptyDict
    /\ adapters = EmptyDict
    /\ created = 0
    /\ tasks = [t \in Tasks |-> IdleTask]
    /\ sweeper = IdleSweeper
    /\ shutdown = IdleShutdown
    /\ limiter = RateLimitMiddleware(DefaultCallsPerMinute, TRUE)
    /\ admitted = EmptyDict
    /\ stored_under = EmptyDict
    /\ transients = 0
    /\ ev = NoEvent

\* Concurrent discover calls and the clock.
NextCache ==
    \/ Tick
    \/ \E t \in Tasks, cfg \in Configs : DiscoverStart(t, cfg)
    \/ \E t \in Tasks : DiscoverOpen(t)
    \/ \E t \in Tasks : DiscoverInitialize(t)
    \/ \E t \in Tasks : DiscoverListTools(t)
    \/ \E t \in Tasks : DiscoverClose(t)

SpecCache == InitCache /\ [][NextCache]_vars

\* The shared settings object is assigned to while the service runs: caching
\* is switched, the ttl is changed.
Configure(enabled, ttl) ==
    /\ settings' = [settings EXCEPT !.mcp_cache_enabled = enabled, !.mcp_cache_ttl = ttl]
    /\ settings' # settings
    /\ ev' = NoEvent
    /\ TimePasses
    /\ UNCHANGED <<now, limiter, admitted, stored_under, transients, created, discovered_tools_cache,
                   running_servers, session_metadata, adapters, tasks, shutdown>>

\* Discover calls of one handler, the clock, and changes of the configuration.
NextConfig ==
    \/ Tick
    \/ \E cfg \in Configs : DiscoverStart("t1", cfg)
    \/ DiscoverOpen("t1")
    \/ DiscoverInitialize("t1")
    \/ DiscoverListTools("t1")
    \/ DiscoverClose("t1")
    \/ \E enabled \in BOOLEAN, ttl \in TTLValues : Configure(enabled, ttl)

SpecConfig == InitCache /\ [][NextConfig]_vars

\* The orders in which a request supplies the fields of its launch spec.
FieldOrders ==
    {<<"name", "command", "args", "env">>, <<"env", "args", "command", "name">>,
     <<"args", "name", "env", "command">>}

\* The env maps a request supplies, as written.
EnvBodies ==
    {<<>>, <<<<"ROOT", "/srv">>>>, <<<<"ROOT", "/tmp">>>>,
     <<<<"ROOT", "/srv">>, <<"PATH", "/bin">>>>,
     <<<<"PATH", "/bin">>, <<"ROOT", "/srv">>>>}

\* The mcp_config of a request body: its fields as written, in any order, env
\* left out or given.
Bodies ==
    {[i \in 1..Len(order) |->
         <<order[i], CASE order[i] = "name" -> name
                       [] order[i] = "command" -> command
                       [] order[i] = "args" -> args
                       [] order[i] = "env" -> env>>] :
        order \in FieldOrders, name \in {"files", "git"}, command \in {"npx", "uvx"},
        args \in {<<>>, <<"-y", "server">>, <<"server", "-y">>}, env \in EnvBodies}
    \cup {<<<<"command", command>>, <<"name", "files">>>> : command \in {"npx", "uvx"}}

\* The value a body gives a field, or the field's default.
Field(body, field, default) ==
    IF \E i \in 1..Len(body) : body[i][1] = field
    THEN body[CHOOSE i \in 1..Len(body) : body[i][1] = field][2]
    ELSE default

\* MCPConfig(**body): args defaults to [], env to {}.
MCPConfigOf(body) ==
    MCPConfig(Field(body, "name", "none"), Field(body, "command", "none"),
              Field(body, "args", <<>>), Field(body, "env", <<>>))

\* The cache key of the launch spec of a request body.
GenerateCacheKey(body) ==
    /\ ev' = [NoEvent EXCEPT !.kind = "return", !.op = "cache_key",
                             !.cfg = MCPConfigOf(body),
                             !.answer = [status |-> "key", body |-> body,
                                         key |-> _generate_cache_key(MCPConfigOf(body))]]
    /\ UNCHANGED <<now, settings, limiter, admitted, stored_under, transients, created,
                   discovered_tools_cache, running_servers, session_metadata, adapters,
                   tasks, sweeper, shutdown>>

\* Cache keys of launch specs, as requests write them.
NextKey == \E body \in Bodies : GenerateCacheKey(body)

SpecKey == InitCache /\ [][NextKey]_vars

LimitValues == 0..MaxLimit

\* The steps by which the clock of the rate limiter moves.
Elapses == {Window \div 2, Window - 1}

\* Requests that come over a connection: request.client is set.
Connected == {request \in Requests : request.host # None}

\* A new RateLimitMiddleware under any rate_limit_per_minute, rate limiting on
\* or off.  With rate limiting off setup_middleware installs no limiter at
\* all, and every request reaches call_next as it does through a limiter whose
\* enabled is off.
InitRate ==
    /\ now = 0
    /\ settings \in [mcp_session_timeout : {1}, mcp_auto_cleanup : {TRUE},
                     mcp_cache_enabled : {TRUE}, mcp_cache_ttl : {1}]
    /\ running_servers = EmptyDict
    /\ discovered_tools_cache = EmptyDict
    /\ session_metadata = EmptyDict
    /\ adapters = EmptyDict
    /\ created = 0
    /\ tasks = [t \in Tasks |-> IdleTask]
    /\ sweeper = IdleSweeper
    /\ shutdown = IdleShutdown
    /\ limiter \in {RateLimitMiddleware(n, e) : n \in LimitValues, e \in BOOLEAN}
    /\ admitted = EmptyDict
    /\ stored_under = EmptyDict
    /\ transients = 0
    /\ ev = NoEvent

\* Requests arriving at the rate limiter, and the clock.
NextRate ==
    \/ \E d \in Elapses : Elapse(d)
    \/ \E request \in Connected : Dispatch(request)

SpecRate == InitRate /\ [][NextRate]_vars

\* Requests with headers of every shape: absent, empty, blank, one entry,
\* several entries, entries padded with blanks, an empty first entry.
AnyRequests ==
    {Request(f, r, h) :
        f \in {None, <<>>, <<" ">>, <<"a">>, <<" ", "a", " ", ",", "b">>,
               <<"b", ",", "a">>, <<",", "a">>, <<"a", " ", "b">>},
        r \in {None, <<>>, <<"b">>, <<" ", "b">>},
        h \in {None, <<"a">>, <<"b">>, <<"c">>}}

\* _get_client_ip answers for a request.
GetClientIp(request) ==
    /\ ev' = [NoEvent EXCEPT !.kind = "return", !.op = "client_ip",
                             !.client_ip = _get_client_ip(request),
                             !.answer = [status |-> "request", request |-> request]]
    /\ UNCHANGED <<now, settings, limiter, admitted, stored_under, transients, created,
                   discovered_tools_cache, running_servers, session_metadata, adapters,
                   tasks, sweeper, shutdown>>

\* The identities of requests.
NextClientIp == \E request \in AnyRequests : GetClientIp(request)

SpecClientIp == InitRate /\ [][NextClientIp]_vars

\* periodic_cleanup: `while True` around sleep(60) and cleanup_expired_sessions,
\* with the try inside the loop.  The loop never ends, so a pass that can start
\* does start, and a close the pass awaits comes back.
SpecSweeper ==
    Init /\ [][Next]_vars /\ WF_vars(SweepScan) /\ WF_vars(SweepResume)

\* ==================================================================== claims

\* A handler t that enters execute_tool_with_config for sid in this step.
ExecuteStarts(t, sid) ==
    /\ tasks[t].pc = "idle"
    /\ tasks'[t].op = "execute"
    /\ tasks'[t].sid = sid

\* C1 -- Session reuse.  An execute that finds a Session Record for its
\* identifier dispatches the invocation to that record's adapter, opens no
\* provider session and creates no record, and sets the record's last_used to
\* the current time, which is not earlier than the last_used it replaces.
C1_SessionReuse ==
    [][\A t \in Tasks, sid \in SessionIds :
          (ExecuteStarts(t, sid) /\ sid \in DOMAIN running_servers)
          => /\ tasks'[t].pc = "call_tool"
             /\ tasks'[t].adapter = running_servers[sid].session
             /\ tasks'[t].transient = "none"
             /\ running_servers' = running_servers
             /\ adapters' = adapters
             /\ created' = created
             /\ session_metadata'[sid].last_used = now
             /\ session_metadata'[sid].last_used >= session_metadata[sid].last_used]_vars

\* C1 witness: an invocation in flight on a reused session whose record was
\* touched at a time later than its creation.
C1_Witness ==
    \E t \in Tasks :
       /\ tasks[t].pc = "call_tool"
       /\ tasks[t].sid \in DOMAIN session_metadata
       /\ running_servers[tasks[t].sid].session = tasks[t].adapter
       /\ session_metadata[tasks[t].sid].last_used = now
       /\ session_metadata[tasks[t].sid].created_at < now

\* The step just taken ended an execute whose invocation on a reused session
\* of sid had failed: it returned the error result, or it raised.
ReuseFailed(e, sid) ==
    /\ e.op = "execute" /\ e.path = "reuse" /\ e.sid = sid
    /\ \/ e.kind = "return" /\ e.status = "error"
       \/ e.kind = "raise"

\* C2 -- Self-healing.  When an execute whose invocation on a reused session
\* failed comes to its end, the identifier is in neither running_servers nor
\* session_metadata, and an execute under the same identifier that comes next
\* takes the new-session path.
C2_SelfHealing ==
    [][\A sid \in SessionIds :
          /\ ReuseFailed(ev', sid)
             => sid \notin DOMAIN running_servers' /\ sid \notin DOMAIN session_metadata'
          /\ ReuseFailed(ev, sid)
             => \A t \in Tasks :
                   ExecuteStarts(t, sid)
                   => tasks'[t].path = "new" /\ tasks'[t].pc = "open"]_vars

\* C2 witness: a failed reuse has just returned while the other handler is
\* still in flight.
C2_Witness ==
    /\ ReuseFailed(ev, "s1") /\ ev.kind = "return"
    /\ "s1" \notin DOMAIN running_servers
    /\ \E t \in Tasks : tasks[t].pc # "idle"

\* A step of handler t on the new-session path of execute.
OneShotStep(t) ==
    /\ tasks'[t] # tasks[t]
    /\ tasks[t].path = "new" \/ tasks'[t].path = "new"

\* C3 -- One-shot execute never registers a session.  No step of the
\* new-session path changes running_servers or session_metadata, whatever else
\* is in flight, and when the call returns, with success or error, the
\* provider session it opened has had its close invoked.
C3_OneShotNeverRegisters ==
    [][\A t \in Tasks :
          OneShotStep(t)
          => /\ running_servers' = running_servers
             /\ session_metadata' = session_metadata
             /\ adapters' = adapters
             /\ tasks'[t].pc = "idle"
                => /\ ev'.kind = "return" /\ ev'.op = "execute" /\ ev'.path = "new"
                   /\ ev'.status \in {"success", "error"}
                   /\ ev'.transient = IF tasks[t].transient = "open"
                                      THEN "closed" ELSE "none"]_vars

\* C3 witness: a one-shot execute has just returned success, its provider
\* session closed, while another one-shot execute under the same identifier is
\* in flight, and the registry is empty.
C3_Witness ==
    /\ ev = Returned("execute", "s1", "new", "success", "closed")
    /\ \E t \in Tasks : tasks[t].path = "new" /\ tasks[t].sid = "s1"
    /\ running_servers = EmptyDict /\ session_metadata = EmptyDict

\* Handler t starts a discover of cfg in this step: it either returns at once
\* from the cache or goes on to open a provider session.
DiscoverStarts(t, cfg) ==
    /\ tasks[t].pc = "idle"
    /\ \/ tasks'[t].op = "discover" /\ tasks'[t].cfg = cfg
       \/ /\ tasks'[t].pc = "idle"
          /\ ev' # ev
          /\ ev'.kind = "return" /\ ev'.op = "discover" /\ ev'.path = "hit"
          /\ ev'.cfg = cfg

\* C4 -- Cache TTL.  With caching on and an entry stored for launch spec cfg at
\* cachedAt, a discover of cfg that starts at a time now < cachedAt + ttl
\* returns the stored data without opening a provider session, and one that
\* starts at a time now >= cachedAt + ttl goes on to open a provider session.
C4_CacheTTL ==
    [][\A t \in Tasks, cfg \in Configs :
          LET cache_key == _generate_cache_key(cfg) IN
          (/\ DiscoverStarts(t, cfg)
           /\ settings.mcp_cache_enabled
           /\ cache_key \in DOMAIN discovered_tools_cache)
          => LET entry == discovered_tools_cache[cache_key]
                 cachedAt == fromisoformat(entry.cached_at)
             IN  IF now < cachedAt + settings.mcp_cache_ttl
                 THEN /\ ev' = DiscoverReturned(cfg, "hit", entry.data, "none")
                      /\ entry.data.status = "success"
                      /\ tasks' = tasks
                 ELSE /\ tasks'[t].pc = "open"
                      /\ tasks'[t].path = "expired"
                      /\ ev'.kind = "none"]_vars

\* C4 witness: a discover has just been served from an entry stored earlier,
\* while another discover, started at the very instant its entry's ttl ran
\* out, is opening a provider session.
C4_Witness ==
    /\ ev.kind = "return" /\ ev.op = "discover" /\ ev.path = "hit"
    /\ fromisoformat(discovered_tools_cache[_generate_cache_key(ev.cfg)].cached_at) < now
    /\ \E t \in Tasks :
          /\ tasks[t].op = "discover" /\ tasks[t].pc = "open"
          /\ tasks[t].path = "expired"
          /\ fromisoformat(discovered_tools_cache[_generate_cache_key(tasks[t].cfg)].cached_at)
                + settings.mcp_cache_ttl = now

\* C5 -- No empty caching.  A discover whose provider lists zero tools stores
\* nothing and returns status success, and every entry of
\* discovered_tools_cache holds a non-empty tool list.
C5_NoEmptyCaching ==
    [][/\ \A t \in Tasks :
             (/\ tasks[t].op = "discover"
              /\ tasks'[t] # tasks[t]
              /\ tasks'[t].result = SuccessResult(<<>>) \/ tasks[t].result = SuccessResult(<<>>))
             => /\ discovered_tools_cache' = discovered_tools_cache
                /\ tasks'[t].pc = "idle"
                   => ev'.kind = "return" /\ ev'.result.status = "success"
       /\ \A k \in DOMAIN discovered_tools_cache' :
             discovered_tools_cache'[k].data.tools # <<>>]_vars

\* A step of a discover of handler t other than the return of a successful
\* list_tools.
DiscoverStepWithoutListing(t) ==
    /\ tasks'[t] # tasks[t]
    /\ tasks[t].op = "discover" \/ tasks'[t].op = "discover"
    /\ ~(tasks[t].pc = "list_tools" /\ tasks'[t].result.status = "success")

\* Handler t is in, or enters with this step, the failure of its discover:
\* the open, initialize or list_tools has failed.
DiscoverFails(t) ==
    \/ tasks[t].op = "discover" /\ tasks[t].pc = "open" /\ tasks'[t].pc = "idle"
    \/ tasks[t].op = "discover" /\ tasks[t].pc = "initialize" /\ tasks'[t].pc = "close"
    \/ tasks[t].op = "discover" /\ tasks[t].pc = "list_tools"
          /\ tasks'[t].result.status = "error"
    \/ tasks[t].op = "discover" /\ tasks[t].pc = "close"
          /\ tasks[t].result.status = "error" /\ tasks'[t].pc = "idle"

\* C6 -- Discovery failure.  A discover whose open, initialize or list_tools
\* fails changes discovered_tools_cache in none of its steps, and ends by
\* returning, not raising, the error result with an empty tool list.
C6_DiscoveryFailure ==
    [][\A t \in Tasks :
          /\ DiscoverStepWithoutListing(t)
             => discovered_tools_cache' = discovered_tools_cache
          /\ DiscoverFails(t)
             => /\ discovered_tools_cache' = discovered_tools_cache
                /\ tasks'[t].pc = "idle"
                   => /\ ev'.kind = "return" /\ ev'.op = "discover"
                      /\ ev'.cfg = tasks[t].cfg
                      /\ ev'.result.status = "error"
                      /\ ev'.result.tools = <<>>
                /\ tasks'[t].pc # "idle"
                   => tasks'[t].pc = "close" /\ tasks'[t].result = ErrorResult]_vars

\* C6 witness: a discover whose list_tools failed has just returned its error
\* while the cache holds an entry another discover stored under the same key.
C6_Witness ==
    /\ ev.kind = "return" /\ ev.op = "discover" /\ ev.result.status = "error"
    /\ ev.transient = "closed"
    /\ _generate_cache_key(ev.cfg) \in DOMAIN discovered_tools_cache

\* C7 -- Execute never lets a failure escape: no execute ends by raising.
C7_ExecuteNeverRaises ==
    ~(ev.kind = "raise" /\ ev.op = "execute")

\* C8 -- Idle expiry.  When a sweep pass with auto-cleanup on comes back and no
\* other operation took a step since its scan, every record it scanned with
\* current_time - last_used > mcp_session_timeout is gone from both maps and
\* from get_active_sessions, every other record it scanned is in place
\* untouched, and the pass did not raise.
C8_IdleExpiry ==
    (ev.op = "sweep" /\ ev.status # "disabled" /\ sweeper.alone)
    => /\ ev.kind = "return"
       /\ \A sid \in DOMAIN sweeper.scanned :
             IF sweeper.current_time - sweeper.scanned[sid].last_used
                   > settings.mcp_session_timeout
             THEN /\ sid \notin DOMAIN running_servers
                  /\ sid \notin DOMAIN session_metadata
                  /\ \A r \in get_active_sessions.sessions : r.session_id # sid
             ELSE /\ sid \in DOMAIN running_servers
                  /\ sid \in DOMAIN session_metadata
                  /\ session_metadata[sid] = sweeper.scanned[sid]

\* C8 witness: an undisturbed pass has removed a record idle for longer than
\* the timeout and left one idle for exactly the timeout.
C8_Witness ==
    /\ ev.op = "sweep" /\ ev.kind = "return" /\ ev.status = "done" /\ sweeper.alone
    /\ \E gone, kept \in DOMAIN sweeper.scanned :
          /\ gone \notin DOMAIN running_servers
          /\ kept \in DOMAIN running_servers
          /\ sweeper.current_time - sweeper.scanned[kept].last_used
                = settings.mcp_session_timeout

\* The sweeper starts closing an adapter in this step.
SweeperStartsClose ==
    /\ sweeper'.pc = "closing"
    /\ sweeper.pc # "closing" \/ sweeper'.expired_sessions # sweeper.expired_sessions

\* C9 -- The sweeper does not cancel in-flight calls: it never starts closing
\* the adapter of a session on which an invocation is in progress.
C9_SweeperSparesInFlight ==
    [][SweeperStartsClose
       => \A t \in Tasks :
             ~(tasks[t].pc = "call_tool" /\ tasks[t].adapter = sweeper'.adapter)]_vars

\* C10 -- Shutdown drains.  Once shutdown_event has run to completion
\* get_active_sessions returns no session and total_count 0.
C10_ShutdownDrains ==
    shutdown.pc = "done"
    => get_active_sessions = [sessions |-> {}, total_count |-> 0]

\* C10 witness: shutdown has completed after stopping two live sessions.
C10_Witness ==
    /\ shutdown.pc = "done"
    /\ Len(shutdown.active_sessions) = 2
    /\ running_servers = EmptyDict

\* A stop_server that found no await to make has returned in this step.
StopReturnsAtOnce ==
    /\ tasks' = tasks
    /\ ev' # ev
    /\ ev'.op = "stop" /\ ev'.kind = "return"

\* C11 -- stop_server returns whether a live session existed for the
\* identifier when it was called.  Called without a record it returns False;
\* called with one it closes the record's adapter, leaves the identifier in
\* neither running_servers nor session_metadata, and returns True.
C11_StopReturnsExisted ==
    [][/\ StopReturnsAtOnce
          => ev'.status = IF ev'.sid \in DOMAIN running_servers THEN "true" ELSE "false"
       /\ \A t \in Tasks :
             (tasks[t].op = "stop" /\ tasks[t].pc = "stop_close" /\ tasks'[t].pc = "idle")
             => /\ [ev' EXCEPT !.close = "none"]
                      = Returned("stop", tasks[t].sid, "none", "true", "none")
                /\ tasks[t].sid \notin DOMAIN running_servers'
                /\ tasks[t].sid \notin DOMAIN session_metadata'
                /\ tasks[t].adapter \in DOMAIN adapters'
                   => adapters'[tasks[t].adapter] = "closed"]_vars

\* A stop_server for sid is called in this step.
StopStartsOn(sid) ==
    \/ \E t \in Tasks :
          tasks[t].pc = "idle" /\ tasks'[t].op = "stop" /\ tasks'[t].sid = sid
    \/ StopReturnsAtOnce /\ ev'.sid = sid

\* C12 -- Stop and remove are idempotent.  stop_server on an identifier
\* without a record returns False at once, raises nothing and changes neither
\* the registry nor the cache; _cleanup_session on such an identifier changes
\* nothing and raises nothing; a stop_server whose record is still the one it
\* found when its close comes back returns True with the record removed; and a
\* stop_server called right after a stop_server of the same identifier
\* returned gives False and leaves the state as the first one left it.
C12_StopIdempotent ==
    [][/\ (StopReturnsAtOnce /\ ev'.sid \notin DOMAIN running_servers)
          => /\ ev' = Returned("stop", ev'.sid, "none", "false", "none")
             /\ UNCHANGED <<running_servers, session_metadata, discovered_tools_cache,
                            adapters>>
       /\ \A sid \in SessionIds :
             (sid \notin DOMAIN running_servers /\ sid \notin DOMAIN session_metadata)
             => CleanupNoWait(running_servers, session_metadata, sid)
                   = [raised |-> FALSE, rs |-> running_servers, md |-> session_metadata]
       /\ \A t \in Tasks :
             (/\ tasks[t].op = "stop" /\ tasks[t].pc = "stop_close" /\ tasks'[t].pc = "idle"
              /\ tasks[t].sid \in DOMAIN running_servers
              /\ running_servers[tasks[t].sid].session = tasks[t].adapter)
             => /\ [ev' EXCEPT !.close = "none"]
                      = Returned("stop", tasks[t].sid, "none", "true", "none")
                /\ tasks[t].sid \notin DOMAIN running_servers'
                /\ tasks[t].sid \notin DOMAIN session_metadata'
       /\ \A sid \in SessionIds :
             (ev.op = "stop" /\ ev.kind = "return" /\ ev.sid = sid /\ StopStartsOn(sid))
             => /\ tasks' = tasks
                /\ ev' = Returned("stop", sid, "none", "false", "none")
                /\ UNCHANGED <<running_servers, session_metadata, discovered_tools_cache,
                               adapters>>]_vars

\* C12 witness: a stop_server has just returned False for an identifier whose
\* record had existed and has been removed, with nothing else in flight.
C12_Witness ==
    /\ ev = Returned("stop", "s1", "none", "false", "none")
    /\ created = 1
    /\ running_servers = EmptyDict /\ session_metadata = EmptyDict
    /\ \A a \in DOMAIN adapters : adapters[a] = "closed"
    /\ \A t \in Tasks : tasks[t].pc = "idle"

\* The elements of a sequence.
Range(q) == {q[i] : i \in 1..Len(q)}

\* The close that handler t had awaited at pc came back in this step.
CloserResumes(t, pc) ==
    tasks[t].pc = pc /\ tasks'[t].pc = "idle"

\* The close the sweeper had awaited came back in this step.
SweeperResumes ==
    /\ sweeper.pc = "closing"
    /\ ev'.close # "none"
    /\ tasks' = tasks /\ shutdown' = shutdown

\* The close shutdown_event had awaited came back in this step.
ShutdownResumes ==
    shutdown.pc = "closing" /\ shutdown' # shutdown

\* C13 -- Teardown failure is suppressed.  When the close of a record's
\* adapter fails, the registry is left as a successful close would leave it;
\* the record, if still in place, is removed from both maps, and the operation
\* ends as usual: stop_server returns True, execute returns its error result,
\* the sweep goes on to the next expired record, shutdown to the next session.
C13_TeardownSuppressed ==
    [][ev'.close = "failed"
       => /\ \A t \in Tasks :
                (CloserResumes(t, "stop_close") \/ CloserResumes(t, "cleanup_close"))
                => LET sid == tasks[t].sid
                       c == CleanupAfterClose(running_servers, session_metadata, sid, TRUE)
                   IN /\ running_servers' = c.rs /\ session_metadata' = c.md
                      /\ sid \in DOMAIN running_servers
                         => /\ sid \notin DOMAIN running_servers'
                            /\ sid \notin DOMAIN session_metadata'
                            /\ ev'.kind = "return"
                            /\ ev'.status = IF tasks[t].op = "stop" THEN "true" ELSE "error"
          /\ SweeperResumes
             => LET q == sweeper.expired_sessions IN
                Head(q) \in DOMAIN running_servers
                => /\ Head(q) \notin DOMAIN running_servers'
                   /\ Head(q) \notin DOMAIN session_metadata'
                   /\ ev'.kind # "raise"
                   /\ \A sid \in Range(Tail(q)) :
                         \/ sid \notin DOMAIN running_servers'
                         \/ sweeper'.pc = "closing" /\ sid \in Range(sweeper'.expired_sessions)
          /\ ShutdownResumes
             => LET q == shutdown.active_sessions
                    sid == q[shutdown.i]
                IN sid \in DOMAIN running_servers
                   => /\ sid \notin DOMAIN running_servers'
                      /\ sid \notin DOMAIN session_metadata'
                      /\ ev'.kind # "raise"
                      /\ \/ shutdown'.pc = "done"
                         \/ shutdown'.pc = "closing" /\ shutdown'.i > shutdown.i]_vars

\* C13 witness: the first close of a sweep over two expired records has failed;
\* that record is gone and the pass is closing the other one.
C13_Witness ==
    /\ ev = AfterClose(NoEvent, FALSE)
    /\ shutdown.pc = "idle"
    /\ sweeper.pc = "closing"
    /\ Len(sweeper.expired_sessions) = 1
    /\ Cardinality(DOMAIN sweeper.scanned) = 2
    /\ DOMAIN running_servers = {Head(sweeper.expired_sessions)}
    /\ DOMAIN session_metadata = DOMAIN running_servers

\* C14 -- In discover the close of the transient session is invoked on every
\* path and its failure is not the operation's error: a discover whose
\* initialize and list_tools succeeded returns the success result it built,
\* whatever the close does.
C14_DiscoverCloseNotSurfaced ==
    [][\A t \in Tasks :
          (/\ tasks[t].op = "discover" /\ tasks[t].pc = "close"
           /\ tasks[t].result.status = "success"
           /\ tasks'[t].pc = "idle")
          => ev' = DiscoverReturned(tasks[t].cfg, tasks[t].path, tasks[t].result, "closed")]_vars


\* The recorded timestamps of client_ip in the limiter.
WindowOf(lim, client_ip) ==
    IF client_ip \in DOMAIN lim.clients THEN lim.clients[client_ip] ELSE <<>>

\* The requests of client_ip the limiter passed on, latest last.
AdmittedOf(client_ip) ==
    IF client_ip \in DOMAIN admitted THEN admitted[client_ip] ELSE <<>>

\* C15: with a limit of N per minute, a request of client C that arrives when
\* the N latest admitted requests of C began less than 60 seconds ago is
\* rejected with a retry hint of 60, and a request of C that arrives 60 seconds
\* or more after the first of them is admitted.
C15_RateLimit ==
    [][(ev'.op = "dispatch" /\ limiter.enabled) =>
        LET C == ev'.client_ip
            N == limiter.calls_per_minute
            batch == LastN(AdmittedOf(C), N)
        IN /\ (Len(batch) = N /\ (N = 0 \/ now - batch[1] < 60))
                => (ev'.status = "429" /\ ev'.retry_after = 60)
           /\ (N >= 1 /\ Len(batch) = N /\ now - batch[1] >= 60)
                => ev'.status = "call_next"]_vars

\* C15 witness: N requests of a client were admitted within 60 seconds, and a
\* request that arrived 60 seconds or more after the first of them has just
\* been admitted.
C15_Witness ==
    /\ limiter.enabled
    /\ ev.op = "dispatch" /\ ev.status = "call_next"
    /\ LET N == limiter.calls_per_minute
           log == AdmittedOf(ev.client_ip)
       IN /\ N >= 2 /\ Len(log) = N + 1
          /\ log[N] - log[1] < 60
          /\ log[N + 1] = now /\ now - log[1] >= 60

\* The timestamps of window aged less than 60 at time t.
Young(window, t) ==
    LET Test(timestamp) == t - timestamp < 60 IN SelectSeq(window, Test)

\* C16: each pass through the limiter drops the client's timestamps aged 60 or
\* more, admits exactly when fewer than the limit remain, and appends the
\* current time exactly when it admits; a rejected request leaves the pruned
\* window, and no other client's window changes.
C16_LimiterStep ==
    [][(ev'.op = "dispatch" /\ limiter.enabled) =>
        LET C == ev'.client_ip
            kept == Young(WindowOf(limiter, C), now)
            admit == ev'.status = "call_next"
        IN /\ ev'.status \in {"call_next", "429"}
           /\ admit <=> Len(kept) < limiter.calls_per_minute
           /\ DOMAIN limiter'.clients = DOMAIN limiter.clients \cup {C}
           /\ limiter'.clients[C] = IF admit THEN Append(kept, now) ELSE kept
           /\ \A other \in DOMAIN limiter.clients \ {C} :
                  limiter'.clients[other] = limiter.clients[other]
           /\ limiter'.calls_per_minute = limiter.calls_per_minute]_vars

\* C16 witness: a request has just been admitted after every recorded
\* timestamp of its client had aged out, so the window holds the current time
\* alone.
C16_Witness ==
    /\ limiter.enabled
    /\ ev.op = "dispatch" /\ ev.status = "call_next"
    /\ LET log == AdmittedOf(ev.client_ip)
       IN /\ Len(log) >= 2
          /\ log[Len(log) - 1] <= now - 60
          /\ WindowOf(limiter, ev.client_ip) = <<now>>


\* C17: an identifier has a metadata entry exactly when it has an entry in the
\* session map; both are maps, so an identifier has at most one record.
C17_RecordHalvesAgree ==
    DOMAIN session_metadata = DOMAIN running_servers

\* C17 witness: a removal has just ended in a KeyError at the session map,
\* before its metadata step, because an overlapping removal had taken the
\* record; another record was put and is still whole.
C17_Witness ==
    /\ ev.kind = "raise"
    /\ ev.sid \notin DOMAIN running_servers \cup DOMAIN session_metadata
    /\ created = MaxPuts
    /\ DOMAIN running_servers # {}


\* C18: the list of active sessions holds exactly the identifiers in the
\* registry at the instant of the call, each with its record's name and
\* times, total_count is their number, the call returns whatever other
\* operations are under way, and it changes nothing.
C18_ListIsSnapshot ==
    [][ev'.op = "list" =>
        /\ ev'.kind = "return"
        /\ {r.session_id : r \in ev'.answer.sessions} = DOMAIN running_servers
        /\ ev'.answer.total_count = Cardinality(DOMAIN running_servers)
        /\ Cardinality(ev'.answer.sessions) = ev'.answer.total_count
        /\ \A r \in ev'.answer.sessions :
               /\ r.name = running_servers[r.session_id].server_name
               /\ r.created_at = session_metadata[r.session_id].created_at
               /\ r.last_used = session_metadata[r.session_id].last_used
        /\ UNCHANGED <<running_servers, session_metadata, adapters,
                       discovered_tools_cache>>]_vars

\* C18 witness: the list was taken while the sweeper was suspended in the
\* close of one record and a handler in a call on another; it shows both.
C18_Witness ==
    /\ ev.op = "list"
    /\ ev.answer.total_count = 2
    /\ sweeper.pc = "closing"
    /\ tasks["t1"].pc # "idle"

\* C19: status(sessionId) answers running with the record's name, created-at
\* and last-used exactly when the identifier has a record in the registry,
\* and not_found alone otherwise; it changes neither registry nor cache.
C19_StatusAnswer ==
    [][ev'.op = "status" =>
        /\ ev'.kind = "return"
        /\ IF ev'.sid \in DOMAIN running_servers
           THEN ev'.answer =
                    [status |-> "running",
                     name |-> running_servers[ev'.sid].server_name,
                     created_at |-> session_metadata[ev'.sid].created_at,
                     last_used |-> session_metadata[ev'.sid].last_used]
           ELSE ev'.answer = [status |-> "not_found"]
        /\ UNCHANGED <<running_servers, session_metadata, adapters,
                       discovered_tools_cache>>]_vars

\* C19 witness: status answered running for an identifier whose record was
\* being closed by a stop at that moment, with last-used after created-at.
C19_Witness ==
    /\ ev.op = "status"
    /\ ev.answer.status = "running"
    /\ ev.answer.last_used > ev.answer.created_at
    /\ tasks["t1"].op = "stop" /\ tasks["t1"].sid = ev.sid


\* C20: a discover that hits a fresh cache entry returns the stored data in
\* the same step, with no provider session opened and its handler idle again,
\* and leaves the cache as it was: the entry's cached-at is the one it had.
C20_HitLeavesCache ==
    [][\A t \in Tasks :
          (/\ tasks[t].pc = "idle"
           /\ ev' # ev
           /\ ev'.kind = "return" /\ ev'.op = "discover" /\ ev'.path = "hit")
          => LET cache_key == _generate_cache_key(ev'.cfg) IN
             /\ cache_key \in DOMAIN discovered_tools_cache
             /\ ev'.result = discovered_tools_cache[cache_key].data
             /\ ev'.transient = "none"
             /\ tasks' = tasks
             /\ adapters' = adapters
             /\ discovered_tools_cache' = discovered_tools_cache
             /\ discovered_tools_cache'[cache_key].cached_at
                    = discovered_tools_cache[cache_key].cached_at]_vars

\* C20 witness: a discover has just been served from the cache at the last
\* instant of its entry's lifetime, after the time of the entry's storing.
C20_Witness ==
    /\ ev.kind = "return" /\ ev.op = "discover" /\ ev.path = "hit"
    /\ LET cachedAt ==
               fromisoformat(discovered_tools_cache[_generate_cache_key(ev.cfg)].cached_at)
       IN /\ cachedAt < now
          /\ now = cachedAt + settings.mcp_cache_ttl - 1


\* A step of a discover of handler t.
DiscoverStep(t) ==
    /\ tasks'[t] # tasks[t] \/ (ev' # ev /\ ev'.op = "discover")
    /\ tasks[t].op = "discover" \/ tasks'[t].op = "discover" \/ ev'.op = "discover"

\* C21: while caching is disabled, a discover that starts is not served from
\* the cache, whatever the cache holds, and goes on to open a provider
\* session, and no step of any discover changes the cache.
C21_CacheDisabled ==
    [][~settings.mcp_cache_enabled =>
        \A t \in Tasks :
           /\ \A cfg \in Configs :
                 DiscoverStarts(t, cfg)
                 => /\ tasks'[t].op = "discover" /\ tasks'[t].pc = "open"
                    /\ tasks'[t].cfg = cfg
                    /\ ev'.kind = "none"
           /\ DiscoverStep(t) => discovered_tools_cache' = discovered_tools_cache]_vars

\* C21 witness: with caching disabled, a provider has just listed tools to a
\* discover and nothing was stored for it, while the cache still holds an
\* entry of another launch spec that is within its ttl.
C21_Witness ==
    /\ ~settings.mcp_cache_enabled
    /\ \E t \in Tasks :
          /\ tasks[t].op = "discover" /\ tasks[t].pc = "close"
          /\ tasks[t].result.status = "success" /\ tasks[t].result.tools # <<>>
          /\ _generate_cache_key(tasks[t].cfg) \notin DOMAIN discovered_tools_cache
    /\ \E k \in DOMAIN discovered_tools_cache :
          now < fromisoformat(discovered_tools_cache[k].cached_at) + settings.mcp_cache_ttl

\* C22: whether a discover is served from a stored entry is decided by the
\* flag and the ttl in force when the discover starts, whatever they were
\* when the entry was stored: it is served exactly when caching is on at that
\* moment and now < cached-at + the ttl of that moment.
C22_SettingsReadAtCall ==
    [][\A t \in Tasks, cfg \in Configs :
          LET cache_key == _generate_cache_key(cfg) IN
          (DiscoverStarts(t, cfg) /\ cache_key \in DOMAIN discovered_tools_cache)
          => LET entry == discovered_tools_cache[cache_key]
                 fresh == now < fromisoformat(entry.cached_at) + settings.mcp_cache_ttl
             IN /\ cache_key \in DOMAIN stored_under
                /\ stored_under[cache_key].mcp_cache_enabled
                /\ IF settings.mcp_cache_enabled /\ fresh
                   THEN /\ ev'.kind = "return" /\ ev'.path = "hit"
                        /\ ev'.result = entry.data
                        /\ tasks'[t].pc = "idle"
                   ELSE /\ tasks'[t].pc = "open"
                        /\ ev'.kind = "none"]_vars

\* C22 witness: a discover has just been served from an entry that had
\* outlived the ttl it was stored under, the ttl having been raised since.
C22_Witness ==
    /\ ev.kind = "return" /\ ev.op = "discover" /\ ev.path = "hit"
    /\ LET cache_key == _generate_cache_key(ev.cfg)
           cachedAt == fromisoformat(discovered_tools_cache[cache_key].cached_at)
       IN /\ now >= cachedAt + stored_under[cache_key].mcp_cache_ttl
          /\ now < cachedAt + settings.mcp_cache_ttl


\* The entries of a dict, without their order.
Entries(d) == {d[i] : i \in 1..Len(d)}

\* Two launch specs have the same name, command, ordered argument list and
\* environment map.
SameLaunchSpec(c1, c2) ==
    /\ c1.name = c2.name
    /\ c1.command = c2.command
    /\ c1.args = c2.args
    /\ Entries(c1.env) = Entries(c2.env)

\* C23: the cache key of a launch spec equals the cache key of another one
\* exactly when the two have the same name, command, ordered argument list and
\* environment map, in whatever order fields and environment entries were
\* written.
C23_CanonicalKey ==
    ev.op = "cache_key"
    => \A other \in Bodies :
          (_generate_cache_key(MCPConfigOf(other)) = ev.answer.key)
          <=> SameLaunchSpec(MCPConfigOf(other), ev.cfg)

\* C23 witness: a key was made for a launch spec with two environment entries,
\* and the body that writes the fields and the entries the other way round
\* gets the same key, while the one with the arguments swapped does not.
C23_Witness ==
    /\ ev.op = "cache_key"
    /\ Len(ev.cfg.env) = 2 /\ Len(ev.cfg.args) = 2
    /\ ev.answer.body[1][1] = "name"
    /\ \E other \in Bodies :
          /\ other[1][1] = "env"
          /\ MCPConfigOf(other).env = <<ev.cfg.env[2], ev.cfg.env[1]>>
          /\ _generate_cache_key(MCPConfigOf(other)) = ev.answer.key
    /\ \E other \in Bodies :
          /\ MCPConfigOf(other).args = <<ev.cfg.args[2], ev.cfg.args[1]>>
          /\ MCPConfigOf(other).env = ev.cfg.env
          /\ MCPConfigOf(other).name = ev.cfg.name
          /\ MCPConfigOf(other).command = ev.cfg.command
          /\ _generate_cache_key(MCPConfigOf(other)) # ev.answer.key


\* C24: with auto-cleanup disabled, a sweep returns at once: it never
\* suspends in a close, and it leaves the session map, the metadata map and
\* every adapter as they were, however long the records have been idle.
C24_SweeperDisabled ==
    [][~settings.mcp_auto_cleanup =>
        /\ sweeper.pc = "idle" /\ sweeper'.pc = "idle"
        /\ ev'.op = "sweep"
           => /\ ev' = Returned("sweep", "none", "none", "disabled", "none")
              /\ UNCHANGED <<running_servers, session_metadata, adapters>>]_vars

\* C24 witness: with auto-cleanup disabled a sweep has just returned, and a
\* record idle for longer than the session timeout is in place, its adapter
\* open.
C24_Witness ==
    /\ ~settings.mcp_auto_cleanup
    /\ ev.op = "sweep" /\ ev.status = "disabled"
    /\ \E sid \in DOMAIN running_servers :
          /\ now - session_metadata[sid].last_used > settings.mcp_session_timeout
          /\ adapters[running_servers[sid].session] = "open"


\* C25: with rate limiting disabled every request is passed on, whatever the
\* client and however many of its requests were passed on before, and the
\* per-client window map is never written: it stays empty.
C25_LimiterDisabled ==
    [][~limiter.enabled =>
        /\ limiter' = limiter
        /\ limiter.clients = EmptyDict
        /\ ev'.op = "dispatch"
           => ev'.status = "call_next" /\ ev'.retry_after = 0]_vars

\* C25 witness: with rate limiting disabled and a limit of N, request N + 1
\* of one client within the same instant has just been passed on.
C25_Witness ==
    /\ ~limiter.enabled
    /\ ev.op = "dispatch" /\ ev.status = "call_next"
    /\ limiter.clients = EmptyDict
    /\ \E C \in DOMAIN admitted :
          /\ Len(admitted[C]) = limiter.calls_per_minute + 1
          /\ limiter.calls_per_minute >= 1
          /\ admitted[C][1] = now


\* A header carries a value: it was sent, and not empty.
Present(header) == header # None /\ Len(header) > 0

\* The text of a header before its first comma.
FirstEntry(header) ==
    LET commas == {i \in 1..Len(header) : header[i] = ","}
        end == IF commas = {} THEN Len(header)
               ELSE (CHOOSE i \in commas : \A j \in commas : i <= j) - 1
    IN SubSeq(header, 1, end)

\* A text without the blanks around it.
Trimmed(text) ==
    LET inked == {i \in 1..Len(text) : text[i] # " "}
    IN IF inked = {} THEN <<>>
       ELSE SubSeq(text, CHOOSE i \in inked : \A j \in inked : i <= j,
                         CHOOSE i \in inked : \A j \in inked : i >= j)

\* C26: the identity of a request is the first comma-separated entry of its
\* forwarded-for header, trimmed, when the header carries a value; otherwise
\* its real-IP header when that carries a value; otherwise the peer address
\* when there is a peer; otherwise "unknown".  The sources after the first
\* that matches have no part in it.
C26_ClientIdentity ==
    ev.op = "client_ip"
    => LET request == ev.answer.request IN
       /\ ev.client_ip =
             IF Present(request.forwarded_for)
             THEN Trimmed(FirstEntry(request.forwarded_for))
             ELSE IF Present(request.real_ip) THEN request.real_ip
             ELSE IF request.host # None THEN request.host
             ELSE <<"unknown">>
       /\ \A other \in AnyRequests :
             (Present(request.forwarded_for)
              /\ other.forwarded_for = request.forwarded_for)
             => _get_client_ip(other) = ev.client_ip

\* C26 witness: a request with several padded forwarded-for entries, a
\* real-IP header and a peer, all three naming different addresses, got the
\* first forwarded-for entry as its identity.
C26_Witness ==
    /\ ev.op = "client_ip"
    /\ ev.answer.request = Request(<<" ", "a", " ", ",", "b">>, <<"b">>, <<"c">>)
    /\ ev.client_ip = <<"a">>


\* C27: from a new manager, whatever discover, execute, stop, status, list,
\* stats, sweep and shutdown do, the session map and the metadata map are
\* empty; so every execute is on the new-session path, every stop answers
\* false, every status not_found, the list and the stats count no session, and
\* no operation is ever suspended in a call or a close on a record.
C27_RegistryStaysEmpty ==
    /\ running_servers = EmptyDict
    /\ session_metadata = EmptyDict
    /\ \A t \in Tasks :
          /\ tasks[t].op = "execute" => tasks[t].path = "new"
          /\ tasks[t].pc \notin {"call_tool", "cleanup_close", "stop_close"}
    /\ sweeper.pc = "idle"
    /\ shutdown.pc # "closing"
    /\ ev.op = "execute" => ev.path = "new"
    /\ ev.op = "stop" => ev.status = "false"
    /\ ev.op = "status" => ev.answer = [status |-> "not_found"]
    /\ ev.op = "list" => ev.answer = [sessions |-> {}, total_count |-> 0]
    /\ ev.op = "stats" => ev.answer.active_sessions = 0

\* C27 witness: a stop has just answered false for an identifier, at a time
\* when discovers have filled the cache and the clock has moved on.
C27_Witness ==
    /\ ev.op = "stop" /\ ev.status = "false"
    /\ discovered_tools_cache # EmptyDict
    /\ now >= 1


\* C28: overlapping removals are safe.  Whenever the close awaited by a removal
\* comes back, be it for a stop, a reuse-failure cleanup, the sweeper or the
\* shutdown hook, the deletion that follows finds its key, nothing is raised,
\* and the identifier is left without a record.
C28_OverlappingRemovalsSafe ==
    [][/\ \A t \in Tasks :
             (CloserResumes(t, "stop_close") \/ CloserResumes(t, "cleanup_close"))
             => /\ tasks[t].sid \in DOMAIN running_servers
                /\ ev'.kind # "raise"
                /\ tasks[t].sid \notin DOMAIN running_servers'
       /\ SweeperResumes
          => /\ Head(sweeper.expired_sessions) \in DOMAIN running_servers
             /\ ev'.kind # "raise"
             /\ Head(sweeper.expired_sessions) \notin DOMAIN running_servers'
       /\ ShutdownResumes
          => /\ shutdown.active_sessions[shutdown.i] \in DOMAIN running_servers
             /\ ev'.kind # "raise"
             /\ shutdown.active_sessions[shutdown.i] \notin DOMAIN running_servers']_vars


\* C29 -- The sweeper removes a record only if it is idle at the moment of
\* removal: whenever a close awaited by the sweeper comes back and the sweeper
\* deletes the record, now - last_used > mcp_session_timeout holds for that
\* record, so a record touched by a reuse after the scan is not removed by
\* that pass.
C29_RemovedOnlyIfIdle ==
    [][SweeperResumes
       => \A sid \in DOMAIN running_servers \ DOMAIN running_servers' :
             /\ sid \in DOMAIN session_metadata
             /\ IsExpired(now, session_metadata[sid].last_used)]_vars


\* C30 -- A sweep pass is complete under interference: when a pass that was
\* suspended in a close ends, it ends by returning, and the record it was
\* closing and every expired record still on its list are gone from the
\* registry, whatever stop or reuse-failure cleanup interleaved.
C30_PassCompletes ==
    [][(sweeper.pc = "closing" /\ sweeper'.pc = "idle")
       => /\ ev'.kind # "raise"
          /\ \A sid \in Range(sweeper.expired_sessions) :
                sid \notin DOMAIN running_servers']_vars


\* C31 -- No invocation is dispatched to a session whose close has begun: an
\* execute that takes the reuse path dispatches to an adapter that is open,
\* never to one that stop, the sweeper, shutdown or a reuse-failure cleanup has
\* started closing.
C31_NoDispatchToClosing ==
    [][\A t \in Tasks :
          (/\ tasks[t].pc = "idle"
           /\ tasks'[t].op = "execute"
           /\ tasks'[t].path = "reuse")
          => adapters[tasks'[t].adapter] = "open"]_vars


\* The discover of handler t has stored its result in the cache: its
\* list_tools succeeded with a result that ShouldStore accepts (the settings
\* do not change during a call under SpecCache).
DiscoverWrote(t) ==
    /\ tasks[t].op = "discover" /\ tasks[t].pc = "close"
    /\ tasks[t].result.status = "success"
    /\ ShouldStore(tasks[t].result.tools)

\* C32 -- An error result and a cache write never come from the same discover
\* call: a discover that returns status error, for any cause including a
\* failed close of its transient session, has written nothing to the cache.
C32_ErrorNeverCaches ==
    [][\A t \in Tasks :
          (/\ tasks[t].op = "discover"
           /\ tasks'[t].pc = "idle"
           /\ ev'.kind = "return" /\ ev'.op = "discover"
           /\ ev'.result.status = "error")
          => ~DiscoverWrote(t)]_vars


\* No call of a request handler, of the sweeper or of shutdown is in progress.
Quiescent ==
    /\ \A t \in Tasks : tasks[t].pc = "idle"
    /\ sweeper.pc = "idle"
    /\ shutdown.pc # "closing"

\* The provider sessions whose close has not been invoked: those held by
\* Session Records and those opened by discover or one-shot execute.
OpenProviderSessions ==
    transients + Cardinality({a \in DOMAIN adapters : adapters[a] = "open"})

\* C33 -- No transient session leaks: every provider session opened by
\* discover or one-shot execute whose close has not been invoked belongs to a
\* call still in progress, so each has its close invoked by the time its call
\* returns, on every path; and whenever no call is in progress the number of
\* open provider sessions equals the number of Session Records.
C33_NoTransientLeak ==
    /\ transients = Cardinality({t \in Tasks : tasks[t].transient = "open"})
    /\ Quiescent => OpenProviderSessions = Cardinality(DOMAIN running_servers)


\* The record of sid is idle beyond the timeout while auto-cleanup is on.
Reclaimable(sid) ==
    /\ settings.mcp_auto_cleanup
    /\ sid \in DOMAIN running_servers
    /\ sid \in DOMAIN session_metadata
    /\ IsExpired(now, session_metadata[sid].last_used)

\* A sweep pass has just been left by an exception.
SweepRaised == ev.kind = "raise" /\ ev.op = "sweep"

\* A sweep pass is under way or has just returned.
SweepRuns == sweeper.pc = "closing" \/ (ev.kind = "return" /\ ev.op = "sweep")

\* The adapter a is held by a record that is idle beyond the timeout.
HeldIdle(a) ==
    \E sid \in SessionIds : Reclaimable(sid) /\ running_servers[sid].session = a

\* The adapter a has had its close invoked and no record holds it.
Reclaimed(a) ==
    /\ a \notin DOMAIN adapters \/ adapters[a] # "open"
    /\ \A sid \in DOMAIN running_servers : running_servers[sid].session # a

\* The record that holds the adapter a has been used again.
UsedAgain(a) ==
    \E sid \in DOMAIN running_servers :
       running_servers[sid].session = a /\ ~Reclaimable(sid)

\* C34 -- Eventual reclamation: with auto-cleanup on and the sweeper running
\* fairly, a Session Record idle beyond the timeout is eventually closed and
\* removed unless it is used again, and after a pass that ended in an
\* exception another pass runs (unless the application has shut down).
C34_EventualReclamation ==
    /\ \A a \in 1..MaxPuts : HeldIdle(a) ~> (Reclaimed(a) \/ UsedAgain(a))
    /\ SweepRaised ~> (SweepRuns \/ shutdown.pc = "done")

\* C35 -- Sliding-window bound.  With rate limiting on and a limit N, no
\* client's recorded window ever holds more than N timestamps, and no N + 1
\* requests of one client are admitted within less than 60 seconds: the first
\* and the last of any N + 1 consecutive admitted requests lie 60 or more
\* apart, so no interval (t - 60, t] holds more than N of them.
C35_SlidingWindowBound ==
    limiter.enabled
    => LET N == limiter.calls_per_minute IN
       /\ \A C \in DOMAIN limiter.clients : Len(limiter.clients[C]) <= N
       /\ \A C \in DOMAIN admitted :
             \A i \in 1..Len(admitted[C]) :
                i + N <= Len(admitted[C])
                => admitted[C][i + N] - admitted[C][i] >= Window

\* C35 witness: a client's window is full with N >= 2 timestamps, N + 1 of
\* its requests have been admitted over 60 seconds or more, and its latest
\* request has just been rejected.
C35_Witness ==
    /\ limiter.enabled
    /\ ev.op = "dispatch" /\ ev.status = "429"
    /\ LET N == limiter.calls_per_minute
           C == ev.client_ip
       IN /\ N >= 2
          /\ Len(WindowOf(limiter, C)) = N
          /\ Len(AdmittedOf(C)) = N + 1
          /\ now - AdmittedOf(C)[1] >= Window


\* C36 -- Rate-limit isolation between clients.  A pass of a request of client
\* C through the limiter leaves the recorded window of every other client as
\* it was, and C's request is admitted exactly when fewer than N of C's own
\* latest admitted requests are younger than 60 at the current time, whatever
\* the other clients have sent.
C36_ClientIsolation ==
    [][(ev'.op = "dispatch" /\ limiter.enabled) =>
        LET C == ev'.client_ip
            N == limiter.calls_per_minute
            recent == Young(LastN(AdmittedOf(C), N), now)
        IN /\ \A D \in (DOMAIN limiter.clients \cup DOMAIN limiter'.clients) \ {C} :
                 /\ D \in DOMAIN limiter.clients
                 /\ D \in DOMAIN limiter'.clients
                 /\ limiter'.clients[D] = limiter.clients[D]
           /\ \A D \in DOMAIN admitted \ {C} : AdmittedOf(D)' = AdmittedOf(D)
           /\ ev'.status = "call_next" <=> Len(recent) < N]_vars

\* C36 witness: a request of one client has just been admitted while another
\* client's window is full of timestamps younger than 60.
C36_Witness ==
    /\ limiter.enabled
    /\ limiter.calls_per_minute >= 1
    /\ ev.op = "dispatch" /\ ev.status = "call_next"
    /\ \E D \in DOMAIN limiter.clients \ {ev.client_ip} :
          Len(Young(limiter.clients[D], now)) = limiter.calls_per_minute


\* The entry under key K is created or changed in this step.
EntryChanges(K) ==
    K \notin DOMAIN discovered_tools_cache
    \/ discovered_tools_cache'[K] # discovered_tools_cache[K]

\* The discover of handler t stores its non-empty listing under K in this
\* step, with cached_at the current time.
DiscoverStores(t, K) ==
    /\ tasks[t].op = "discover" /\ tasks[t].pc = "list_tools"
    /\ _generate_cache_key(tasks[t].cfg) = K
    /\ tasks'[t].result.status = "success"
    /\ tasks'[t].result.tools # <<>>
    /\ discovered_tools_cache'[K] =
          [data |-> tasks'[t].result, cached_at |-> isoformat(now)]

\* C37 -- Cache entries are only ever replaced, never mutated or deleted.  No
\* step removes an entry; the entry of a key K changes only by the store of a
\* discover of K that listed a non-empty tool list, which replaces it whole
\* with cached_at the current time, and that discover succeeds: it returns
\* status success; the cached_tools count of get_stats is the number of
\* stored entries, expired ones included, and never decreases.
C37_EntriesOnlyReplaced ==
    [][/\ DOMAIN discovered_tools_cache \subseteq DOMAIN discovered_tools_cache'
       /\ \A K \in DOMAIN discovered_tools_cache' :
             EntryChanges(K) => \E t \in Tasks : DiscoverStores(t, K)
       /\ \A t \in Tasks :
             (DiscoverWrote(t) /\ tasks'[t].pc = "idle")
             => ev'.kind = "return" /\ ev'.result.status = "success"
       /\ get_stats.cached_tools = Cardinality(DOMAIN discovered_tools_cache)
       /\ get_stats'.cached_tools >= get_stats.cached_tools]_vars

====
